---- MODULE Spec2Model ----
(***************************************************************************)
(* Model of the grammar front end of bnf_parser_generator:                 *)
(*   BNFLexer::tokenize  ->  BNFParser::parseGrammar  ->                   *)
(*   BNFParser::validateGrammar, driven by BNFGrammarFactory::fromString,  *)
(* and of what is done with a grammar: Grammar::toString, the tokenizer    *)
(* GrammarBasedTokenizer, the parser emitted by CppCodeGenerator, and the  *)
(* utf8 utilities; and of the generator's command line (main).             *)
(*                                                                         *)
(* A std::string is a sequence of characters; a character is a one-letter  *)
(* string.  Fixed pieces of a diagnostic are kept as one element, so a     *)
(* message is the sequence of its pieces in order.                         *)
(***************************************************************************)
EXTENDS Integers, Sequences, FiniteSets, TLC

VARIABLES
    pc,          \* position of the fromString run
    src,         \* the grammar text: its lines and how they are laid out
    tokens,      \* BNFLexer::tokenize() result
    parser,      \* BNFParser: current_, error_ (and the '{' decisions it took)
    grammar,     \* the Grammar returned by parseGrammar, or NoGrammar
    val,         \* validateGrammar: its locals and its ValidationResult
    outcome,     \* what fromString did: returned the grammar or threw
    printed,     \* Grammar::toString() of the grammar and what parsing it gave
    tk,          \* GrammarBasedTokenizer::tokenize: its locals and its result
    gp,          \* a run of the emitted parser: input, cursor, call stack
    utf,         \* a call of the utf8 utilities: argument and result
    cli          \* a run of the generator's main: stage, files written, exit code

\* the state outside the fromString run
others == <<printed, tk, gp, utf, cli>>

vars == <<pc, src, tokens, parser, grammar, val, outcome, others>>

-----------------------------------------------------------------------------
(* Strings *)

EmptyStr == << >>

RECURSIVE Concat(_)
\* the concatenation of a list of strings
Concat(ss) == IF ss = << >> THEN << >> ELSE Head(ss) \o Concat(Tail(ss))

RECURSIVE JoinWith(_, _)
\* the strings of a list, with sep between neighbours
JoinWith(ss, sep) ==
    IF ss = << >> THEN << >>
    ELSE IF Len(ss) = 1 THEN ss[1]
    ELSE ss[1] \o sep \o JoinWith(Tail(ss), sep)

RECURSIVE SetToSeq(_)
\* the iteration order of an unordered_set: some enumeration of its members
SetToSeq(S) ==
    IF S = {} THEN << >>
    ELSE LET x == CHOOSE y \in S : TRUE IN <<x>> \o SetToSeq(S \ {x})

Range(s) == { s[i] : i \in DOMAIN s }

-----------------------------------------------------------------------------
(* Characters *)

NUL == "<0>"        \* what BNFLexer::peek returns past the end of the input

LowerCase == {"a","b","c","d","e","f","g","h","i","j","k","l","m",
              "n","o","p","q","r","s","t","u","v","w","x","y","z"}
UpperCase == {"A","B","C","D","E","F","G","H","I","J","K","L","M",
              "N","O","P","Q","R","S","T","U","V","W","X","Y","Z"}
Digits    == {"0","1","2","3","4","5","6","7","8","9"}

isAlpha(c) == c \in LowerCase \cup UpperCase
isDigit(c) == c \in Digits
isAlnum(c) == isAlpha(c) \/ isDigit(c)

HexLower == {"a","b","c","d","e","f"}
HexUpper == {"A","B","C","D","E","F"}

DigitSeq == <<"0","1","2","3","4","5","6","7","8","9">>
LowerSeq == <<"a","b","c","d","e","f","g","h","i","j","k","l","m",
              "n","o","p","q","r","s","t","u","v","w","x","y","z">>
UpperSeq == <<"A","B","C","D","E","F","G","H","I","J","K","L","M",
              "N","O","P","Q","R","S","T","U","V","W","X","Y","Z">>

IndexOf(s, c) == CHOOSE i \in DOMAIN s : s[i] = c

\* hexChar - '0', hexChar - 'a' + 10, hexChar - 'A' + 10
HexValue(c) ==
    IF c \in Digits THEN IndexOf(DigitSeq, c) - 1
    ELSE IF c \in HexLower THEN IndexOf(LowerSeq, c) - 1 + 10
    ELSE IF c \in HexUpper THEN IndexOf(UpperSeq, c) - 1 + 10
    ELSE 0

\* the printable ASCII characters, 0x20 .. 0x7E in order (the grave accent,
\* 0x60, is written by its byte value like the non-printable ones)
AsciiPrintable ==
    <<" ","!","\"","#","$","%","&","'","(",")","*","+",",","-",".","/">>
    \o DigitSeq \o <<":",";","<","=",">","?","@">>
    \o UpperSeq \o <<"[","\\","]","^","_","<96>">>
    \o LowerSeq \o <<"{","|","}","~">>

\* static_cast<char>(n): the character with byte value n
Chr(n) ==
    IF n >= 32 /\ n <= 126 THEN AsciiPrintable[n - 31]
    ELSE IF n = 10 THEN "\n"
    ELSE IF n = 9 THEN "\t"
    ELSE IF n = 13 THEN "\r"
    ELSE "<" \o ToString(n) \o ">"

-----------------------------------------------------------------------------
(* utf8::codepointToUtf8 *)

\* the bytes of a code point, or the message of the exception it throws
codepointToUtf8(codepoint) ==
    IF codepoint > 1114111
      THEN [bytes |-> << >>, error |-> <<"Invalid Unicode codepoint: exceeds U+10FFFF">>]
    ELSE IF codepoint >= 55296 /\ codepoint <= 57343
      THEN [bytes |-> << >>, error |-> <<"Invalid Unicode codepoint: surrogate pair range">>]
    ELSE IF codepoint <= 127
      THEN [bytes |-> <<Chr(codepoint)>>, error |-> EmptyStr]
    ELSE IF codepoint <= 2047
      THEN [bytes |-> <<Chr(192 + (codepoint \div 64)),
                        Chr(128 + (codepoint % 64))>>, error |-> EmptyStr]
    ELSE IF codepoint <= 65535
      THEN [bytes |-> <<Chr(224 + (codepoint \div 4096)),
                        Chr(128 + ((codepoint \div 64) % 64)),
                        Chr(128 + (codepoint % 64))>>, error |-> EmptyStr]
    ELSE [bytes |-> <<Chr(240 + (codepoint \div 262144)),
                      Chr(128 + ((codepoint \div 4096) % 64)),
                      Chr(128 + ((codepoint \div 64) % 64)),
                      Chr(128 + (codepoint % 64))>>, error |-> EmptyStr]

-----------------------------------------------------------------------------
(* BNFLexer *)

Token(type, value, line, column) ==
    [type |-> type, value |-> value, line |-> line, column |-> column]

\* BNFLexer::BNFLexer: pos_, line_, column_
LexerStart == [pos |-> 0, line |-> 1, column |-> 1]

\* BNFLexer::peek(offset)
LexPeek(input, ls, offset) ==
    IF ls.pos + offset < Len(input) THEN input[ls.pos + offset + 1] ELSE NUL

\* BNFLexer::advance: the lexer after the call (the character it returns is
\* LexPeek(input, ls, 0))
LexAdvance(input, ls) ==
    IF ls.pos >= Len(input) THEN ls
    ELSE IF input[ls.pos + 1] = "\n"
      THEN [pos |-> ls.pos + 1, line |-> ls.line + 1, column |-> 1]
      ELSE [pos |-> ls.pos + 1, line |-> ls.line, column |-> ls.column + 1]

RECURSIVE skipWhitespace(_, _)
skipWhitespace(input, ls) ==
    IF ls.pos < Len(input) /\ LexPeek(input, ls, 0) \in {" ", "\t", "\r"}
      THEN skipWhitespace(input, LexAdvance(input, ls))
      ELSE ls

RECURSIVE ReadCommentLoop(_, _, _)
ReadCommentLoop(input, ls, value) ==
    IF ls.pos < Len(input) /\ LexPeek(input, ls, 0) # "\n"
      THEN ReadCommentLoop(input, LexAdvance(input, ls), Append(value, LexPeek(input, ls, 0)))
      ELSE [ls |-> ls, value |-> value]

\* BNFLexer::readComment: the token and the lexer after it; the newline that
\* ends the comment is left in the input
readComment(input, ls) ==
    LET r == ReadCommentLoop(input, LexAdvance(input, ls), EmptyStr)
    IN  [tok |-> Token("COMMENT", r.value, ls.line, ls.column), ls |-> r.ls,
         error |-> EmptyStr]

RECURSIVE ReadHexDigitsAtMost(_, _, _, _)
\* ReadHexDigits that takes a character that is no digit as the end of the escape
ReadHexDigitsAtMost(input, ls, n, hexCode) ==
    IF n = 0 THEN [ok |-> TRUE, ls |-> ls, hexCode |-> hexCode]
    ELSE LET hexChar == LexPeek(input, ls, 0) IN
         IF hexChar \in Digits \cup HexLower \cup HexUpper
           THEN ReadHexDigitsAtMost(input, LexAdvance(input, ls), n - 1,
                                    Append(hexCode, hexChar))
           ELSE [ok |-> TRUE, ls |-> ls, hexCode |-> hexCode]

RECURSIVE ReadHexDigits(_, _, _, _)
\* the for loop of readString that reads the digits of \uXXXX or \UXXXXXXXX
ReadHexDigits(input, ls, n, hexCode) ==
    IF n = 0 THEN [ok |-> TRUE, ls |-> ls, hexCode |-> hexCode]
    ELSE LET hexChar == LexPeek(input, ls, 0) IN
         IF hexChar \in Digits \cup HexLower \cup HexUpper
           THEN ReadHexDigits(input, LexAdvance(input, ls), n - 1, Append(hexCode, hexChar))
           ELSE [ok |-> FALSE, ls |-> ls, hexCode |-> hexCode]

RECURSIVE HexToCodepoint(_, _)
HexToCodepoint(hexCode, codepoint) ==
    IF hexCode = << >> THEN codepoint
    ELSE HexToCodepoint(Tail(hexCode), codepoint * 16 + HexValue(Head(hexCode)))

\* the switch of readString on the character after a backslash
Unescape(escaped) ==
    CASE escaped = "n"  -> <<"\n">>
      [] escaped = "t"  -> <<"\t">>
      [] escaped = "r"  -> <<"\r">>
      [] escaped = "\\" -> <<"\\">>
      [] escaped = "\"" -> <<"\"">>
      [] escaped = "'"  -> <<"'">>
      [] OTHER          -> <<"\\", escaped>>

RECURSIVE ReadStringLoop(_, _, _, _)
ReadStringLoop(input, ls, quote, value) ==
    IF ls.pos >= Len(input) THEN [ls |-> ls, value |-> value, error |-> EmptyStr]
    ELSE LET c == LexPeek(input, ls, 0) IN
      IF c = quote
        THEN [ls |-> LexAdvance(input, ls), value |-> value, error |-> EmptyStr]
      ELSE IF c = "\\"
        THEN LET l1 == LexAdvance(input, ls)
                 escaped == LexPeek(input, l1, 0)
             IN IF escaped \in {"u", "U"}
                  THEN LET h == ReadHexDigits(input, LexAdvance(input, l1),
                                              IF escaped = "U" THEN 8 ELSE 4, EmptyStr)
                           u == codepointToUtf8(HexToCodepoint(h.hexCode, 0))
                       IN IF ~h.ok
                            THEN [ls |-> h.ls, value |-> value,
                                  error |-> <<"Invalid Unicode escape sequence at line ",
                                              ToString(h.ls.line), ", column ",
                                              ToString(h.ls.column)>>]
                          ELSE IF u.error # EmptyStr
                            THEN [ls |-> h.ls, value |-> value, error |-> u.error]
                          ELSE ReadStringLoop(input, h.ls, quote, value \o u.bytes)
                  ELSE ReadStringLoop(input, LexAdvance(input, l1), quote,
                                      value \o Unescape(escaped))
      ELSE ReadStringLoop(input, LexAdvance(input, ls), quote, Append(value, c))

\* BNFLexer::readString: the TERMINAL token with its escapes decoded, or the
\* message of the exception thrown on a malformed Unicode escape
readString(input, ls) ==
    LET r == ReadStringLoop(input, LexAdvance(input, ls), LexPeek(input, ls, 0), EmptyStr)
    IN  [tok |-> Token("TERMINAL", r.value, ls.line, ls.column), ls |-> r.ls,
         error |-> r.error]

RECURSIVE ReadIdentifierLoop(_, _, _, _)
ReadIdentifierLoop(input, ls, inBrackets, value) ==
    IF ls.pos >= Len(input) THEN [ls |-> ls, value |-> value]
    ELSE LET c == LexPeek(input, ls, 0) IN
      IF inBrackets /\ c = ">"
        THEN [ls |-> LexAdvance(input, ls), value |-> value]
      ELSE IF ~inBrackets /\ ~isAlnum(c) /\ c # "_" /\ c # "-"
        THEN [ls |-> ls, value |-> value]
      ELSE IF inBrackets /\ (isAlnum(c) \/ c = "_" \/ c = "-" \/ c = " ")
        THEN ReadIdentifierLoop(input, LexAdvance(input, ls), inBrackets, Append(value, c))
      ELSE IF ~inBrackets /\ (isAlnum(c) \/ c = "_" \/ c = "-")
        THEN ReadIdentifierLoop(input, LexAdvance(input, ls), inBrackets, Append(value, c))
      ELSE [ls |-> ls, value |-> value]

\* BNFLexer::readIdentifier: name or <name with spaces>
readIdentifier(input, ls) ==
    LET inBrackets == LexPeek(input, ls, 0) = "<"
        r == ReadIdentifierLoop(input, IF inBrackets THEN LexAdvance(input, ls) ELSE ls,
                                inBrackets, EmptyStr)
    IN  [tok |-> Token("IDENTIFIER", r.value, ls.line, ls.column), ls |-> r.ls,
         error |-> EmptyStr]

\* the switch of tokenize on a one-character operator
SingleCharTokens ==
    [c \in {"|", "(", ")", "[", "]", "{", "}", "+", "*", "?", ",", ";", ":"} |->
        CASE c = "|" -> "ALTERNATIVE"
          [] c = "(" -> "LEFT_PAREN"
          [] c = ")" -> "RIGHT_PAREN"
          [] c = "[" -> "LEFT_BRACKET"
          [] c = "]" -> "RIGHT_BRACKET"
          [] c = "{" -> "LEFT_BRACE"
          [] c = "}" -> "RIGHT_BRACE"
          [] c = "+" -> "PLUS"
          [] c = "*" -> "STAR"
          [] c = "?" -> "QUESTION"
          [] c = "," -> "COMMA"
          [] c = ";" -> "SEMICOLON"
          [] c = ":" -> "COLON"]

Advance2(input, ls) == LexAdvance(input, LexAdvance(input, ls))
Advance3(input, ls) == LexAdvance(input, Advance2(input, ls))

\* one turn of the while loop of tokenize, after skipWhitespace: the token read
\* at ls and the lexer after it
NextToken(input, ls) ==
    LET c == LexPeek(input, ls, 0)
        one(type, value, after) ==
            [tok |-> Token(type, value, ls.line, ls.column), ls |-> after,
             error |-> EmptyStr]
    IN  IF c = "#" THEN readComment(input, ls)
        ELSE IF c = "\n" THEN one("NEWLINE", <<"\\", "n">>, LexAdvance(input, ls))
        ELSE IF c = "\"" \/ c = "'" THEN readString(input, ls)
        ELSE IF c = ":" /\ LexPeek(input, ls, 1) = ":" /\ LexPeek(input, ls, 2) = "="
          THEN one("DEFINE", <<":", ":", "=">>, Advance3(input, ls))
        ELSE IF c = "." /\ LexPeek(input, ls, 1) = "."
          THEN one("DOT_DOT", <<".", ".">>, Advance2(input, ls))
        ELSE IF c \in DOMAIN SingleCharTokens
          THEN one(SingleCharTokens[c], <<c>>, LexAdvance(input, ls))
        ELSE IF isAlpha(c) \/ c = "_" \/ c = "<" THEN readIdentifier(input, ls)
        ELSE one("UNKNOWN", <<c>>, LexAdvance(input, ls))

RECURSIVE TokenizeLoop(_, _, _)
TokenizeLoop(input, ls, toks) ==
    IF ls.pos >= Len(input)
      THEN [tokens |-> Append(toks, Token("EOF_TOKEN", EmptyStr, ls.line, ls.column)),
            error |-> EmptyStr]
    ELSE LET l1 == skipWhitespace(input, ls) IN
      IF l1.pos >= Len(input)
        THEN [tokens |-> Append(toks, Token("EOF_TOKEN", EmptyStr, l1.line, l1.column)),
              error |-> EmptyStr]
      ELSE LET r == NextToken(input, l1) IN
        IF r.error # EmptyStr THEN [tokens |-> << >>, error |-> r.error]
        ELSE TokenizeLoop(input, r.ls, Append(toks, r.tok))

\* BNFLexer::tokenize: the token list ending in EOF_TOKEN, or the message of the
\* exception readString threw (then no token list is returned)
tokenize(input) == TokenizeLoop(input, LexerStart, << >>)

-----------------------------------------------------------------------------
(* utf8 helpers used by the parser *)

\* static_cast<unsigned char>(c): the byte value of a character
Ord(c) == CHOOSE n \in 0..255 : Chr(n) = c

\* charLength without the test for a four-byte lead
charLengthUpTo3(firstByte) ==
    IF firstByte < 128 THEN 1
    ELSE IF firstByte >= 192 /\ firstByte < 224 THEN 2
    ELSE IF firstByte >= 224 /\ firstByte < 240 THEN 3
    ELSE 1

\* utf8::charLength
charLength(firstByte) ==
    IF firstByte < 128 THEN 1
    ELSE IF firstByte >= 192 /\ firstByte < 224 THEN 2
    ELSE IF firstByte >= 224 /\ firstByte < 240 THEN 3
    ELSE IF firstByte >= 240 /\ firstByte < 248 THEN 4
    ELSE 1

\* utf8::isValidSequence (pos counts from 0)
isValidSequence(input, pos, length) ==
    IF pos + length > Len(input) THEN FALSE
    ELSE IF length = 1 THEN Ord(input[pos + 1]) < 128
    ELSE \A i \in 1..(length - 1) :
            LET b == Ord(input[pos + i + 1]) IN b >= 128 /\ b < 192

\* extractChar without the test of the sequence
ExtractCharLengthUnchecked(input, pos) ==
    IF pos >= Len(input) THEN 0
    ELSE charLength(Ord(input[pos + 1]))

\* utf8::extractChar: the length it stores in charLength
ExtractCharLength(input, pos) ==
    IF pos >= Len(input) THEN 0
    ELSE LET n == charLength(Ord(input[pos + 1])) IN
         IF ~isValidSequence(input, pos, n) THEN 1 ELSE n

RECURSIVE Utf8LengthLoop(_, _, _)
Utf8LengthLoop(str, pos, count) ==
    IF pos >= Len(str) THEN count
    ELSE LET charLen == ExtractCharLength(str, pos) IN
         IF charLen = 0 THEN count
         ELSE Utf8LengthLoop(str, pos + charLen, count + 1)

\* utf8::length: the number of scalars of a string
utf8Length(str) == Utf8LengthLoop(str, 0, 0)

\* utf8::utf8ToCodepoint
utf8ToCodepoint(utf8Str) ==
    IF utf8Str = << >> THEN 0
    ELSE LET firstByte == Ord(utf8Str[1])
             len == charLength(firstByte)
             cont(i) == Ord(utf8Str[i]) % 64
         IN  IF Len(utf8Str) < len THEN 0
             ELSE IF len = 1 THEN firstByte
             ELSE IF len = 2 THEN (firstByte % 32) * 64 + cont(2)
             ELSE IF len = 3 THEN (firstByte % 16) * 4096 + cont(2) * 64 + cont(3)
             ELSE (firstByte % 8) * 262144 + cont(2) * 4096 + cont(3) * 64 + cont(4)

-----------------------------------------------------------------------------
(* Grammar AST (bnf_ast.hpp) *)

Null == [t |-> "null"]

Terminal(value) == [t |-> "Terminal", value |-> value]
NonTerminal(name, parameterValues) ==
    [t |-> "NonTerminal", name |-> name, parameterValues |-> parameterValues]
CharRange(start, end) == [t |-> "CharRange", start |-> start, end |-> end]
Alternative(choices) == [t |-> "Alternative", choices |-> choices]
Sequence(elements) == [t |-> "Sequence", elements |-> elements]
Group(content) == [t |-> "Group", content |-> content]
Optional(content) == [t |-> "Optional", content |-> content]
ZeroOrMore(content) == [t |-> "ZeroOrMore", content |-> content]
OneOrMore(content) == [t |-> "OneOrMore", content |-> content]
ContextAction(actionType, arguments) ==
    [t |-> "ContextAction", actionType |-> actionType, arguments |-> arguments]

RuleParameter(name, type, enumValues) ==
    [name |-> name, type |-> type, enumValues |-> enumValues]

ProductionRule(leftSide, parameters, rightSide) ==
    [leftSide |-> leftSide, parameters |-> parameters, rightSide |-> rightSide]

-----------------------------------------------------------------------------
(* BNFParser: the token cursor *)

\* BNFParser::BNFParser and error_.clear() of parseGrammar.  braces records, for
\* every '{' parsePrimary met, what its lookahead decided.
ParserStart == [cur |-> 0, err |-> EmptyStr, braces |-> << >>]

\* BNFParser::peek
peek(toks, st) == toks[st.cur + 1]

\* BNFParser::isAtEnd
isAtEnd(toks, st) == st.cur >= Len(toks) \/ peek(toks, st).type = "EOF_TOKEN"

\* BNFParser::check
check(toks, st, type) == IF isAtEnd(toks, st) THEN FALSE ELSE peek(toks, st).type = type

\* BNFParser::advance: the parser after the call
advance(toks, st) == IF ~isAtEnd(toks, st) THEN [st EXCEPT !.cur = @ + 1] ELSE st

\* the token BNFParser::advance returns, tokens_[current_ - 1]
advanced(toks, st) == toks[advance(toks, st).cur]

\* BNFParser::match: the parser after the call; it matched iff check held before
match(toks, st, type) == IF check(toks, st, type) THEN advance(toks, st) ELSE st

\* BNFParser::error
error(toks, st, message) ==
    [st EXCEPT !.err = <<"Parse error at line ", ToString(peek(toks, st).line),
                         ", column ", ToString(peek(toks, st).column), ": ">> \o message]

-----------------------------------------------------------------------------
(* BNFParser: rule parameters, argument lists, context actions *)

\* A local variable of the code: With([x \in {e} |-> body]) is body with x
\* standing for the value of e, computed once
With(f) == f[CHOOSE x \in DOMAIN f : TRUE]

\* BNFParser::parseParameterType
parseParameterType(toks, st) ==
    IF ~check(toks, st, "IDENTIFIER")
      THEN [type |-> "STRING", st |-> error(toks, st, <<"Expected parameter type">>)]
    ELSE With([typeName \in {advanced(toks, st).value} |->
         With([s1 \in {advance(toks, st)} |->
             IF typeName \in {<<"i","n","t">>, <<"i","n","t","e","g","e","r">>}
               THEN [type |-> "INTEGER", st |-> s1]
             ELSE IF typeName \in {<<"s","t","r","i","n","g">>, <<"s","t","r">>}
               THEN [type |-> "STRING", st |-> s1]
             ELSE IF typeName \in {<<"b","o","o","l">>, <<"b","o","o","l","e","a","n">>}
               THEN [type |-> "BOOLEAN", st |-> s1]
             ELSE IF typeName = <<"e","n","u","m">>
               THEN [type |-> "ENUM", st |-> s1]
             ELSE [type |-> "STRING",
                   st |-> error(toks, s1, <<"Unknown parameter type: ">> \o typeName)]])])

RECURSIVE IdentifierListLoop(_, _, _, _)
\* while (match(COMMA)) { IDENTIFIER } of parseEnumValues, parseParameterValues
\* and parseContextAction; afterComma is the message when no identifier follows
IdentifierListLoop(toks, st, values, afterComma) ==
    IF ~check(toks, st, "COMMA") THEN [values |-> values, st |-> st, returned |-> FALSE]
    ELSE With([s1 \in {advance(toks, st)} |->
         IF ~check(toks, s1, "IDENTIFIER")
           THEN [values |-> values, st |-> error(toks, s1, afterComma), returned |-> FALSE]
           ELSE With([s2 \in {advance(toks, s1)} |->
                IdentifierListLoop(toks, s2, Append(values, advanced(toks, s1).value),
                                   afterComma)])])

\* if (!check(closing)) { IDENTIFIER, then the loop } of parseEnumValues and
\* parseParameterValues; returned is set where the code returns at once, which
\* it does when the first identifier is missing and not when the loop breaks
IdentifierList(toks, s1, closing, expected, afterComma) ==
    IF check(toks, s1, closing) THEN [values |-> << >>, st |-> s1, returned |-> FALSE]
    ELSE IF ~check(toks, s1, "IDENTIFIER")
      THEN [values |-> << >>, st |-> error(toks, s1, expected), returned |-> TRUE]
    ELSE With([s2 \in {advance(toks, s1)} |->
         IdentifierListLoop(toks, s2, <<advanced(toks, s1).value>>, afterComma)])

\* BNFParser::parseEnumValues
parseEnumValues(toks, st) ==
    IF ~check(toks, st, "LEFT_BRACE")
      THEN [values |-> << >>, st |-> error(toks, st, <<"Expected '{' to start enum values">>)]
    ELSE With([s1 \in {advance(toks, st)} |->
         With([r \in {IdentifierList(toks, s1, "RIGHT_BRACE", <<"Expected enum value">>,
                                     <<"Expected enum value after ','">>)} |->
             IF r.returned THEN [values |-> r.values, st |-> r.st]
             ELSE IF check(toks, r.st, "RIGHT_BRACE")
               THEN [values |-> r.values, st |-> advance(toks, r.st)]
             ELSE [values |-> r.values,
                   st |-> error(toks, r.st, <<"Expected '}' to end enum values">>)]])])

\* BNFParser::parseRuleParameter
parseRuleParameter(toks, st) ==
    IF ~check(toks, st, "IDENTIFIER")
      THEN [param |-> RuleParameter(EmptyStr, "STRING", << >>),
            st |-> error(toks, st, <<"Expected parameter name">>)]
    ELSE With([paramName \in {advanced(toks, st).value} |->
         With([s1 \in {advance(toks, st)} |->
             IF ~check(toks, s1, "COLON")
               THEN [param |-> RuleParameter(paramName, "STRING", << >>), st |-> s1]
             ELSE With([s2 \in {advance(toks, s1)} |->
                  With([ty \in {parseParameterType(toks, s2)} |->
                      IF ty.type # "ENUM"
                        THEN [param |-> RuleParameter(paramName, ty.type, << >>), st |-> ty.st]
                      ELSE With([ev \in {parseEnumValues(toks, ty.st)} |->
                           [param |-> RuleParameter(paramName, "ENUM", ev.values),
                            st |-> ev.st]])])])])])

RECURSIVE RuleParametersLoop(_, _, _)
\* while (match(COMMA)) parameters.push_back(parseRuleParameter()) of
\* parseRuleParameters
RuleParametersLoop(toks, st, parameters) ==
    IF ~check(toks, st, "COMMA") THEN [parameters |-> parameters, st |-> st]
    ELSE With([s1 \in {advance(toks, st)} |->
         With([r \in {parseRuleParameter(toks, s1)} |->
             RuleParametersLoop(toks, r.st, Append(parameters, r.param))])])

\* BNFParser::parseRuleParameters
parseRuleParameters(toks, st) ==
    IF ~check(toks, st, "LEFT_BRACKET")
      THEN [parameters |-> << >>,
            st |-> error(toks, st, <<"Expected '[' to start parameter list">>)]
    ELSE With([s1 \in {advance(toks, st)} |->
         With([r \in {IF check(toks, s1, "RIGHT_BRACKET")
                        THEN [parameters |-> << >>, st |-> s1]
                        ELSE With([p \in {parseRuleParameter(toks, s1)} |->
                             RuleParametersLoop(toks, p.st, <<p.param>>)])} |->
             IF check(toks, r.st, "RIGHT_BRACKET")
               THEN [parameters |-> r.parameters, st |-> advance(toks, r.st)]
               ELSE [parameters |-> r.parameters,
                     st |-> error(toks, r.st, <<"Expected ']' to end parameter list">>)]])])

\* BNFParser::parseParameterValues
parseParameterValues(toks, st) ==
    IF ~check(toks, st, "LEFT_BRACKET")
      THEN [values |-> << >>,
            st |-> error(toks, st, <<"Expected '[' to start parameter values">>)]
    ELSE With([s1 \in {advance(toks, st)} |->
         With([r \in {IdentifierList(toks, s1, "RIGHT_BRACKET",
                                     <<"Expected parameter value">>,
                                     <<"Expected parameter value after ','">>)} |->
             IF r.returned THEN [values |-> r.values, st |-> r.st]
             ELSE IF check(toks, r.st, "RIGHT_BRACKET")
               THEN [values |-> r.values, st |-> advance(toks, r.st)]
             ELSE [values |-> r.values,
                   st |-> error(toks, r.st, <<"Expected ']' to end parameter values">>)]])])

\* the arguments of parseContextAction, between '(' and ')'
ActionArguments(toks, s3) ==
    IF check(toks, s3, "RIGHT_PAREN") THEN [values |-> << >>, st |-> s3]
    ELSE With([s4 \in {advance(toks, s3)} |->
         IdentifierListLoop(toks, s4, <<advanced(toks, s3).value>>,
                            <<"Expected argument after ','">>)])

\* the end of parseContextAction, from the ')' on
ActionEnd(toks, actionName, args) ==
    IF ~check(toks, args.st, "RIGHT_PAREN")
      THEN [node |-> Null, st |-> error(toks, args.st, <<"Expected ')' after arguments">>)]
    ELSE With([s4 \in {advance(toks, args.st)} |->
    IF ~check(toks, s4, "RIGHT_BRACE")
      THEN [node |-> Null, st |-> error(toks, s4, <<"Expected '}' to end context action">>)]
    ELSE With([s5 \in {advance(toks, s4)} |->
    IF actionName = <<"s","t","o","r","e">>
      THEN [node |-> ContextAction("STORE", args.values), st |-> s5]
    ELSE IF actionName = <<"l","o","o","k","u","p">>
      THEN [node |-> ContextAction("LOOKUP", args.values), st |-> s5]
    ELSE IF actionName = <<"c","h","e","c","k">>
      THEN [node |-> ContextAction("CHECK", args.values), st |-> s5]
    ELSE [node |-> Null,
          st |-> error(toks, s5, <<"Unknown action type: ">> \o actionName)]])])

\* BNFParser::parseContextAction
parseContextAction(toks, st) ==
    IF ~check(toks, st, "LEFT_BRACE")
      THEN [node |-> Null, st |-> error(toks, st, <<"Expected '{' to start context action">>)]
    ELSE With([s1 \in {advance(toks, st)} |->
    IF ~check(toks, s1, "IDENTIFIER")
      THEN [node |-> Null, st |-> error(toks, s1, <<"Expected action name">>)]
    ELSE With([s2 \in {advance(toks, s1)} |->
    IF ~check(toks, s2, "LEFT_PAREN")
      THEN [node |-> Null, st |-> error(toks, s2, <<"Expected '(' after action name">>)]
    ELSE With([s3 \in {advance(toks, s2)} |->
    IF ~check(toks, s3, "RIGHT_PAREN") /\ ~check(toks, s3, "IDENTIFIER")
      THEN [node |-> Null, st |-> error(toks, s3, <<"Expected argument">>)]
    ELSE With([args \in {ActionArguments(toks, s3)} |->
         ActionEnd(toks, advanced(toks, s1).value, args)])])])])

\* parseParameterizedNonTerminal without the look at a '[' after the name
parseNonTerminalOnly(toks, st) ==
    IF ~check(toks, st, "IDENTIFIER")
      THEN [node |-> Null, st |-> error(toks, st, <<"Expected non-terminal name">>)]
    ELSE [node |-> NonTerminal(advanced(toks, st).value, << >>), st |-> advance(toks, st)]

\* BNFParser::parseParameterizedNonTerminal
parseParameterizedNonTerminal(toks, st) ==
    IF ~check(toks, st, "IDENTIFIER")
      THEN [node |-> Null, st |-> error(toks, st, <<"Expected non-terminal name">>)]
    ELSE With([s1 \in {advance(toks, st)} |->
         IF check(toks, s1, "LEFT_BRACKET")
           THEN With([pv \in {parseParameterValues(toks, s1)} |->
                [node |-> NonTerminal(advanced(toks, st).value, pv.values), st |-> pv.st]])
           ELSE [node |-> NonTerminal(advanced(toks, st).value, << >>), st |-> s1]])

-----------------------------------------------------------------------------
(* BNFParser: expressions *)

\* What parsePrimary did at a '{': at is current_ on entry, action the decision
\* of the lookahead, resume is current_ when the lookahead handed on, made the
\* node returned (Null for nullptr) and stop is current_ on return
LogBrace(st, at, isAction, resume, made) ==
    [st EXCEPT !.braces = Append(@, [at |-> at, action |-> isAction, resume |-> resume,
                                      made |-> made, stop |-> st.cur])]

\* BraceLookahead without the last current_ = saved: after an identifier that no
\* '(' follows, the cursor stays on the identifier
BraceLookaheadKeepsCursor(toks, st) ==
    With([s1 \in {advance(toks, st)} |->
        IF check(toks, s1, "IDENTIFIER")
          THEN With([s2 \in {advance(toks, s1)} |->
               IF check(toks, s2, "LEFT_PAREN")
                 THEN [isAction |-> TRUE, st |-> [s2 EXCEPT !.cur = st.cur]]
                 ELSE [isAction |-> FALSE, st |-> [s2 EXCEPT !.cur = s1.cur]]])
          ELSE [isAction |-> FALSE, st |-> [s1 EXCEPT !.cur = st.cur]]])

\* The lookahead of parsePrimary at a '{': whether IDENTIFIER '(' follows, and
\* the parser as it is handed on, its cursor put back to saved
BraceLookahead(toks, st) ==
    With([s1 \in {advance(toks, st)} |->
        IF check(toks, s1, "IDENTIFIER")
          THEN With([s2 \in {advance(toks, s1)} |->
               IF check(toks, s2, "LEFT_PAREN")
                 THEN [isAction |-> TRUE, st |-> [s2 EXCEPT !.cur = st.cur]]
                 ELSE [isAction |-> FALSE,
                       st |-> [[s2 EXCEPT !.cur = s1.cur] EXCEPT !.cur = st.cur]]])
          ELSE [isAction |-> FALSE, st |-> [s1 EXCEPT !.cur = st.cur]]])

RECURSIVE parseAlternative(_, _), parseSequence(_, _), parseFactor(_, _),
          parsePrimary(_, _), SequenceLoop(_, _, _), AlternativeLoop(_, _, _)

\* BNFParser::parseExpression
parseExpression(toks, st) == parseAlternative(toks, st)

\* while (match(ALTERNATIVE)) of parseAlternative
AlternativeLoop(toks, st, choices) ==
    IF ~check(toks, st, "ALTERNATIVE")
      THEN [node |-> Alternative(choices), st |-> st]
      ELSE With([s1 \in {advance(toks, st)} |->
           With([right \in {parseSequence(toks, s1)} |->
               IF right.node = Null THEN right
               ELSE AlternativeLoop(toks, right.st, Append(choices, right.node))])])

\* BNFParser::parseAlternative
parseAlternative(toks, st) ==
    With([left \in {parseSequence(toks, st)} |->
        IF left.node = Null THEN left
        ELSE IF ~check(toks, left.st, "ALTERNATIVE") THEN left
        ELSE AlternativeLoop(toks, left.st, <<left.node>>)])

\* the while loop of parseSequence: it stops at | ) ] } NEWLINE and the end, and
\* breaks, keeping the elements read so far, when a further factor fails
SequenceLoop(toks, st, elements) ==
    IF /\ ~isAtEnd(toks, st)
       /\ ~check(toks, st, "ALTERNATIVE")
       /\ ~check(toks, st, "RIGHT_PAREN")
       /\ ~check(toks, st, "RIGHT_BRACKET")
       /\ ~check(toks, st, "RIGHT_BRACE")
       /\ ~check(toks, st, "NEWLINE")
       /\ ~check(toks, st, "EOF_TOKEN")
      THEN With([element \in {parseFactor(toks, st)} |->
           IF element.node = Null THEN [elements |-> elements, st |-> element.st]
           ELSE SequenceLoop(toks, element.st, Append(elements, element.node))])
      ELSE [elements |-> elements, st |-> st]

\* parseSequence without the return of a single element as itself
parseSequenceAlwaysWrapped(toks, st) ==
    With([first_ \in {parseFactor(toks, st)} |->
        IF first_.node = Null THEN first_
        ELSE With([r \in {SequenceLoop(toks, first_.st, <<first_.node>>)} |->
             [node |-> Sequence(r.elements), st |-> r.st]])])

\* BNFParser::parseSequence
parseSequence(toks, st) ==
    With([first_ \in {parseFactor(toks, st)} |->
        IF first_.node = Null THEN first_
        ELSE With([r \in {SequenceLoop(toks, first_.st, <<first_.node>>)} |->
             IF Len(r.elements) = 1 THEN [node |-> r.elements[1], st |-> r.st]
             ELSE [node |-> Sequence(r.elements), st |-> r.st]])])

\* BNFParser::parseFactor
parseFactor(toks, st) ==
    With([primary \in {parsePrimary(toks, st)} |->
        IF primary.node = Null THEN primary
        ELSE IF check(toks, primary.st, "PLUS")
          THEN [node |-> OneOrMore(primary.node), st |-> advance(toks, primary.st)]
        ELSE IF check(toks, primary.st, "STAR")
          THEN [node |-> ZeroOrMore(primary.node), st |-> advance(toks, primary.st)]
        ELSE IF check(toks, primary.st, "QUESTION")
          THEN [node |-> Optional(primary.node), st |-> advance(toks, primary.st)]
        ELSE primary])

\* '(' expression ')', '[' expression ']' and '{' expression '}' of
\* parsePrimary, from the expression on: made is the kind of node built around it
Enclosed(toks, s1, closing, made, message) ==
    With([expr \in {parseExpression(toks, s1)} |->
        IF expr.node = Null THEN expr
        ELSE IF ~check(toks, expr.st, closing)
          THEN [node |-> Null, st |-> error(toks, expr.st, message)]
        ELSE [node |-> CASE made = "Group" -> Group(expr.node)
                         [] made = "Optional" -> Optional(expr.node)
                         [] made = "ZeroOrMore" -> ZeroOrMore(expr.node),
              st |-> advance(toks, expr.st)]])

\* a TERMINAL of parsePrimary, and the character range it may start
TerminalOrRange(toks, st) ==
    With([s1 \in {advance(toks, st)} |->
    With([s2 \in {match(toks, s1, "DOT_DOT")} |->
        IF check(toks, s1, "DOT_DOT") /\ check(toks, s2, "TERMINAL")
          THEN With([s3 \in {advance(toks, s2)} |->
               IF utf8Length(advanced(toks, st).value) = 1
                  /\ utf8Length(advanced(toks, s2).value) = 1
                 THEN With([start_cp \in {utf8ToCodepoint(advanced(toks, st).value)} |->
                      With([end_cp \in {utf8ToCodepoint(advanced(toks, s2).value)} |->
                          IF start_cp = 0 \/ end_cp = 0
                            THEN [node |-> Null,
                                  st |-> error(toks, s3,
                                               <<"Invalid UTF-8 character in range">>)]
                            ELSE [node |-> CharRange(start_cp, end_cp), st |-> s3]])])
                 ELSE [node |-> Null,
                       st |-> error(toks, s3,
                                    <<"Character ranges must be single characters">>)]])
          ELSE [node |-> Terminal(advanced(toks, st).value), st |-> s1]])])

\* BNFParser::parsePrimary
parsePrimary(toks, st) ==
    IF check(toks, st, "IDENTIFIER") THEN parseParameterizedNonTerminal(toks, st)
    ELSE IF check(toks, st, "LEFT_BRACE")
      THEN With([la \in {BraceLookahead(toks, st)} |->
           With([r \in {IF la.isAction
                          THEN parseContextAction(toks, la.st)
                          ELSE Enclosed(toks, match(toks, la.st, "LEFT_BRACE"),
                                        "RIGHT_BRACE", "ZeroOrMore",
                                        <<"Expected '}' after repetition expression">>)} |->
               [node |-> r.node,
                st |-> LogBrace(r.st, st.cur, la.isAction, la.st.cur, r.node)]])])
    ELSE IF check(toks, st, "LEFT_PAREN")
      THEN Enclosed(toks, advance(toks, st), "RIGHT_PAREN", "Group",
                    <<"Expected ')' after grouped expression">>)
    ELSE IF check(toks, st, "LEFT_BRACKET")
      THEN Enclosed(toks, advance(toks, st), "RIGHT_BRACKET", "Optional",
                    <<"Expected ']' after optional expression">>)
    ELSE IF check(toks, st, "TERMINAL") THEN TerminalOrRange(toks, st)
    ELSE [node |-> Null,
          st |-> error(toks, st, <<"Expected identifier, terminal, or grouped expression">>)]

-----------------------------------------------------------------------------
(* Grammar (bnf_ast.hpp) *)

Grammar(rules, startSymbol) == [rules |-> rules, startSymbol |-> startSymbol]

NoGrammar == Null

RECURSIVE hasNonTerminalReferences(_)
\* Grammar::hasNonTerminalReferences
hasNonTerminalReferences(node) ==
    CASE node.t = "NonTerminal" -> TRUE
      [] node.t = "Sequence" ->
            \E i \in DOMAIN node.elements : hasNonTerminalReferences(node.elements[i])
      [] node.t = "Alternative" ->
            \E i \in DOMAIN node.choices : hasNonTerminalReferences(node.choices[i])
      [] node.t \in {"Group", "Optional", "ZeroOrMore", "OneOrMore"} ->
            hasNonTerminalReferences(node.content)
      [] OTHER -> FALSE

\* const std::vector<std::string> specialNames of determineStartSymbol
specialNames == << <<"j","s","o","n">>, <<"p","r","o","g","r","a","m">>,
                  <<"s","t","a","r","t">>, <<"g","r","a","m","m","a","r">>,
                  <<"r","o","o","t">> >>

\* where a loop over a vector first meets its condition: the first index at
\* which a sequence of truth values holds TRUE, 0 when there is none
FirstIndex(met) ==
    IF \E i \in DOMAIN met : met[i]
      THEN CHOOSE i \in DOMAIN met : met[i] /\ \A j \in 1..(i - 1) : ~met[j]
      ELSE 0

\* determineStartSymbol with the two loops over the special names the other way
\* round: the first rule, in the order of the file, that bears a special name
determineStartSymbolByRuleOrder(g) ==
    IF g.startSymbol # EmptyStr \/ g.rules = << >> THEN g.startSymbol
    ELSE LET special ==
                 FirstIndex([i \in DOMAIN g.rules |->
                                g.rules[i].leftSide \in Range(specialNames)])
             referring ==
                 FirstIndex([i \in DOMAIN g.rules |->
                                hasNonTerminalReferences(g.rules[i].rightSide)])
         IN  IF special # 0 THEN g.rules[special].leftSide
             ELSE IF referring # 0 THEN g.rules[referring].leftSide
             ELSE g.rules[1].leftSide

\* Grammar::determineStartSymbol: the startSymbol it leaves
determineStartSymbol(g) ==
    IF g.startSymbol # EmptyStr \/ g.rules = << >> THEN g.startSymbol
    ELSE LET special ==
                 FirstIndex([k \in DOMAIN specialNames |->
                                \E i \in DOMAIN g.rules :
                                    g.rules[i].leftSide = specialNames[k]])
             referring ==
                 FirstIndex([i \in DOMAIN g.rules |->
                                hasNonTerminalReferences(g.rules[i].rightSide)])
         IN  IF special # 0 THEN specialNames[special]
             ELSE IF referring # 0 THEN g.rules[referring].leftSide
             ELSE g.rules[1].leftSide

\* Grammar::findRule: the first rule of that name, Null when there is none
findRule(g, nonTerminal) ==
    LET i == FirstIndex([j \in DOMAIN g.rules |-> g.rules[j].leftSide = nonTerminal])
    IN  IF i = 0 THEN Null ELSE g.rules[i]

-----------------------------------------------------------------------------
(* BNFParser: rules and the grammar *)

RECURSIVE SkipNewlines(_, _)
\* while (check(NEWLINE)) advance() of parseRule
SkipNewlines(toks, st) ==
    IF check(toks, st, "NEWLINE")
      THEN With([s1 \in {advance(toks, st)} |-> SkipNewlines(toks, s1)])
      ELSE st

\* BNFParser::parseRule
parseRule(toks, st) ==
    IF ~check(toks, st, "IDENTIFIER")
      THEN [rule |-> Null, st |-> error(toks, st, <<"Expected rule name (identifier)">>)]
    ELSE With([s1 \in {advance(toks, st)} |->
         With([params \in {IF check(toks, s1, "LEFT_BRACKET")
                             THEN parseRuleParameters(toks, s1)
                             ELSE [parameters |-> << >>, st |-> s1]} |->
             IF ~check(toks, params.st, "DEFINE")
               THEN [rule |-> Null,
                     st |-> error(toks, params.st, <<"Expected '::=' after rule name">>)]
             ELSE With([s2 \in {advance(toks, params.st)} |->
                  With([expression \in {parseExpression(toks, s2)} |->
                      IF expression.node = Null THEN [rule |-> Null, st |-> expression.st]
                      ELSE [rule |-> ProductionRule(advanced(toks, st).value,
                                                    params.parameters, expression.node),
                            st |-> SkipNewlines(toks, expression.st)]])])])])

RECURSIVE SkipBlank(_, _)
\* the loop of parseGrammar that skips leading comments and newlines
SkipBlank(toks, st) ==
    IF ~isAtEnd(toks, st) /\ (check(toks, st, "COMMENT") \/ check(toks, st, "NEWLINE"))
      THEN With([s1 \in {advance(toks, st)} |-> SkipBlank(toks, s1)])
      ELSE st

RECURSIVE RulesLoop(_, _, _)
\* the loop of parseGrammar that reads the rules; it breaks at the first rule
\* parseRule does not return
RulesLoop(toks, st, rules) ==
    IF isAtEnd(toks, st) THEN [rules |-> rules, st |-> st]
    ELSE IF check(toks, st, "COMMENT") \/ check(toks, st, "NEWLINE")
      THEN With([s1 \in {advance(toks, st)} |-> RulesLoop(toks, s1, rules)])
    ELSE With([r \in {parseRule(toks, st)} |->
         IF r.rule # Null THEN RulesLoop(toks, r.st, Append(rules, r.rule))
         ELSE [rules |-> rules, st |-> r.st]])

\* parseGrammar without if (!error_.empty()) return nullptr
parseGrammarIgnoringError(toks) ==
    With([s0 \in {SkipBlank(toks, ParserStart)} |->
    With([r \in {RulesLoop(toks, s0, << >>)} |->
        [grammar |-> Grammar(r.rules, determineStartSymbol(Grammar(r.rules, EmptyStr))),
         st |-> r.st]])])

\* BNFParser::parseGrammar: the grammar (NoGrammar for nullptr) and the parser
\* after the call
parseGrammar(toks) ==
    With([s0 \in {SkipBlank(toks, ParserStart)} |->
    With([r \in {RulesLoop(toks, s0, << >>)} |->
        IF r.st.err # EmptyStr THEN [grammar |-> NoGrammar, st |-> r.st]
        ELSE [grammar |-> Grammar(r.rules, determineStartSymbol(Grammar(r.rules, EmptyStr))),
              st |-> r.st]])])

-----------------------------------------------------------------------------
(* BNFParser::validateGrammar *)

RECURSIVE collectSymbolsNotInGroup(_, _, _)
\* collectSymbols with the Group case left out: what stands in parentheses is
\* not looked at
collectSymbolsNotInGroup(node, nonTerminals, terminals) ==
    LET RECURSIVE each(_, _)
        each(children, acc) ==
            IF children = << >> THEN acc
            ELSE each(Tail(children),
                      collectSymbolsNotInGroup(Head(children), acc.nonTerminals,
                                               acc.terminals))
        start == [nonTerminals |-> nonTerminals, terminals |-> terminals]
    IN  CASE node.t = "NonTerminal" ->
                [nonTerminals |-> nonTerminals \cup {node.name}, terminals |-> terminals]
          [] node.t = "Terminal" ->
                [nonTerminals |-> nonTerminals, terminals |-> terminals \cup {node.value}]
          [] node.t = "Alternative" -> each(node.choices, start)
          [] node.t = "Sequence" -> each(node.elements, start)
          [] node.t \in {"Optional", "ZeroOrMore", "OneOrMore"} ->
                collectSymbolsNotInGroup(node.content, nonTerminals, terminals)
          [] OTHER -> start

RECURSIVE collectSymbols(_, _, _)
\* BNFParser::collectSymbols: the two sets after the call
collectSymbols(node, nonTerminals, terminals) ==
    LET RECURSIVE each(_, _)
        each(children, acc) ==
            IF children = << >> THEN acc
            ELSE each(Tail(children),
                      collectSymbols(Head(children), acc.nonTerminals, acc.terminals))
        start == [nonTerminals |-> nonTerminals, terminals |-> terminals]
    IN  CASE node.t = "NonTerminal" ->
                [nonTerminals |-> nonTerminals \cup {node.name}, terminals |-> terminals]
          [] node.t = "Terminal" ->
                [nonTerminals |-> nonTerminals, terminals |-> terminals \cup {node.value}]
          [] node.t = "Alternative" -> each(node.choices, start)
          [] node.t = "Sequence" -> each(node.elements, start)
          [] node.t \in {"Group", "Optional", "ZeroOrMore", "OneOrMore"} ->
                collectSymbols(node.content, nonTerminals, terminals)
          [] OTHER -> start

RECURSIVE isProductiveAnyElement(_, _)
\* isProductive with the Sequence case gone wrong: one productive element is
\* taken to be enough
isProductiveAnyElement(node, productive) ==
    CASE node.t = "NonTerminal" -> node.name \in productive
      [] node.t \in {"Terminal", "CharRange"} -> TRUE
      [] node.t = "Alternative" ->
            \E i \in DOMAIN node.choices :
                isProductiveAnyElement(node.choices[i], productive)
      [] node.t = "Sequence" ->
            \E i \in DOMAIN node.elements :
                isProductiveAnyElement(node.elements[i], productive)
      [] node.t = "Group" -> isProductiveAnyElement(node.content, productive)
      [] node.t = "Optional" -> TRUE
      [] node.t = "ZeroOrMore" -> TRUE
      [] node.t = "OneOrMore" -> isProductiveAnyElement(node.content, productive)
      [] OTHER -> FALSE

RECURSIVE isProductive(_, _)
\* BNFParser::isProductive
isProductive(node, productive) ==
    CASE node.t = "NonTerminal" -> node.name \in productive
      [] node.t \in {"Terminal", "CharRange"} -> TRUE
      [] node.t = "Alternative" ->
            \E i \in DOMAIN node.choices : isProductive(node.choices[i], productive)
      [] node.t = "Sequence" ->
            \A i \in DOMAIN node.elements : isProductive(node.elements[i], productive)
      [] node.t = "Group" -> isProductive(node.content, productive)
      [] node.t = "Optional" -> TRUE
      [] node.t = "ZeroOrMore" -> TRUE
      [] node.t = "OneOrMore" -> isProductive(node.content, productive)
      [] OTHER -> FALSE

ValidationResult(isValid, errors, warnings) ==
    [isValid |-> isValid, errors |-> errors, warnings |-> warnings]

RECURSIVE CollectAll(_, _)
\* the first loop of validateGrammar: definedNonTerminals, usedNonTerminals, terminals
CollectAll(rules, acc) ==
    IF rules = << >> THEN acc
    ELSE LET rule == Head(rules)
             c == collectSymbols(rule.rightSide, acc.used, acc.terminals)
         IN  CollectAll(Tail(rules), [defined |-> acc.defined \cup {rule.leftSide},
                                      used |-> c.nonTerminals, terminals |-> c.terminals])

RECURSIVE ReachLoop(_, _, _)
\* check 2 of validateGrammar: the work list from startSymbol
ReachLoop(g, toProcess, reachable) ==
    IF toProcess = << >> THEN reachable
    ELSE LET current == toProcess[Len(toProcess)]
             rest == SubSeq(toProcess, 1, Len(toProcess) - 1)
         IN  IF current \in reachable THEN ReachLoop(g, rest, reachable)
             ELSE LET reached == reachable \cup {current}
                      rule == findRule(g, current)
                      used == IF rule = Null THEN {}
                              ELSE collectSymbols(rule.rightSide, {}, {}).nonTerminals
                  IN  ReachLoop(g, rest \o SetToSeq(used \ reached), reached)

RECURSIVE PassLoop(_, _)
\* the for loop inside while (changed) of check 3: one pass over the rules in
\* declaration order
PassLoop(rules, acc) ==
    IF rules = << >> THEN acc
    ELSE LET rule == Head(rules) IN
         IF rule.leftSide \notin acc.productive /\ isProductive(rule.rightSide, acc.productive)
           THEN PassLoop(Tail(rules), [productive |-> acc.productive \cup {rule.leftSide},
                                       changed |-> TRUE])
           ELSE PassLoop(Tail(rules), acc)

\* the messages a loop over an unordered_set pushes, one for each member
Messages(prefix, names) ==
    LET order == SetToSeq(names) IN [i \in DOMAIN order |-> <<prefix>> \o order[i]]

\* validateGrammar before any of it ran
ValidationStart ==
    [defined |-> {}, used |-> {}, reachable |-> {}, productive |-> {},
     changed |-> FALSE, passes |-> 0, result |-> ValidationResult(TRUE, << >>, << >>)]

\* validateGrammar up to the productivity loop: the empty-grammar return, then
\* checks 1 and 2
validateChecks(g) ==
    IF g.rules = << >>
      THEN [ValidationStart EXCEPT
                !.result = ValidationResult(FALSE, << <<"Grammar is empty">> >>, << >>)]
    ELSE LET c == CollectAll(g.rules, [defined |-> {}, used |-> {}, terminals |-> {}])
             undefined == c.used \ c.defined
             reachable == ReachLoop(g, <<g.startSymbol>>, {})
         IN  [defined |-> c.defined, used |-> c.used, reachable |-> reachable,
              productive |-> {}, changed |-> TRUE, passes |-> 0,
              result |-> ValidationResult(undefined = {},
                             Messages("Undefined non-terminal: ", undefined),
                             Messages("Unreachable non-terminal: ", c.defined \ reachable))]

\* one turn of while (changed)
productivityPass(g, v) ==
    LET r == PassLoop(g.rules, [productive |-> v.productive, changed |-> FALSE]) IN
    [v EXCEPT !.productive = r.productive, !.changed = r.changed, !.passes = @ + 1]

\* the last loop of validateGrammar: the non-productive names
validateReport(v) ==
    LET nonProductive == v.defined \ v.productive IN
    [v EXCEPT !.result =
        ValidationResult(v.result.isValid /\ nonProductive = {},
                         v.result.errors \o Messages("Non-productive non-terminal: ", nonProductive),
                         v.result.warnings)]

-----------------------------------------------------------------------------
(* BNFGrammarFactory::fromString *)

\* the text handed to fromString: every line followed by its terminator; a
\* comment, where the text has one, stands on a line of its own before each
\* line ("line") or at the end of each line ("trailing")
CommentText == <<"#", " ", "c">>
SourceText(s) ==
    Concat([i \in DOMAIN s.lines |->
               (IF s.comment = "line" THEN CommentText \o <<"\n">> ELSE EmptyStr)
               \o s.lines[i]
               \o (IF s.comment = "trailing" THEN <<" ">> \o CommentText ELSE EmptyStr)
               \o s.term])

Returned == [kind |-> "returned", what |-> EmptyStr]
Thrown(what) == [kind |-> "thrown", what |-> what]
NotYet == [kind |-> "running", what |-> EmptyStr]

\* ValidationMessage with the loop over the warnings left out
ValidationMessageErrorsOnly(validation) ==
    <<"Grammar validation failed:\n">>
    \o Concat([i \in DOMAIN validation.errors |->
                  <<"  Error: ">> \o validation.errors[i] \o <<"\n">>])

\* the message of the exception thrown when validation.isValid is false
ValidationMessage(validation) ==
    <<"Grammar validation failed:\n">>
    \o Concat([i \in DOMAIN validation.errors |->
                  <<"  Error: ">> \o validation.errors[i] \o <<"\n">>])
    \o Concat([i \in DOMAIN validation.warnings |->
                  <<"  Warning: ">> \o validation.warnings[i] \o <<"\n">>])

\* BNFLexer lexer(bnfText); auto tokens = lexer.tokenize();
Lex ==
    /\ pc = "start"
    /\ LET l == tokenize(SourceText(src)) IN
       IF l.error # EmptyStr
         THEN /\ outcome' = Thrown(l.error)
              /\ pc' = "done"
              /\ UNCHANGED tokens
         ELSE /\ tokens' = l.tokens
              /\ pc' = "lexed"
              /\ UNCHANGED outcome
    /\ UNCHANGED <<src, parser, grammar, val, others>>

\* BNFParser parser(tokens); auto grammar = parser.parseGrammar();
Parse ==
    /\ pc = "lexed"
    /\ LET r == parseGrammar(tokens) IN
       /\ grammar' = r.grammar
       /\ parser' = r.st
    /\ pc' = "parsed"
    /\ UNCHANGED <<src, tokens, val, outcome, others>>

\* if (!grammar) throw "Failed to parse BNF grammar: " + parser.getError()
ParseFailed ==
    /\ pc = "parsed"
    /\ grammar = NoGrammar
    /\ outcome' = Thrown(<<"Failed to parse BNF grammar: ">> \o parser.err)
    /\ pc' = "done"
    /\ UNCHANGED <<src, tokens, parser, grammar, val, others>>

\* validateGrammar(*grammar), to the start of the productivity loop
ValidateBegin ==
    /\ pc = "parsed"
    /\ grammar # NoGrammar
    /\ val' = validateChecks(grammar)
    /\ pc' = IF grammar.rules = << >> THEN "validated" ELSE "productivity"
    /\ UNCHANGED <<src, tokens, parser, grammar, outcome, others>>

\* validateGrammar: one turn of while (changed)
ProductivityPass ==
    /\ pc = "productivity"
    /\ val.changed
    /\ val' = productivityPass(grammar, val)
    /\ UNCHANGED <<pc, src, tokens, parser, grammar, outcome, others>>

\* validateGrammar: the loop has ended; report and return
ValidateEnd ==
    /\ pc = "productivity"
    /\ ~val.changed
    /\ val' = validateReport(val)
    /\ pc' = "validated"
    /\ UNCHANGED <<src, tokens, parser, grammar, outcome, others>>

\* if (!validation.isValid) throw ...; return grammar;
Finish ==
    /\ pc = "validated"
    /\ outcome' = IF ~val.result.isValid THEN Thrown(ValidationMessage(val.result))
                  ELSE Returned
    /\ pc' = "done"
    /\ UNCHANGED <<src, tokens, parser, grammar, val, others>>

Next == Lex \/ Parse \/ ParseFailed \/ ValidateBegin \/ ProductivityPass
        \/ ValidateEnd \/ Finish


-----------------------------------------------------------------------------
(* The grammar texts the runs start from *)

MaxRules == 2      \* lines of a grammar text
MaxBrace == 4      \* lexemes that follow a '{' in the texts about braces

Sp == <<" ">>
Newline == <<"\n">>
Words(ws) == JoinWith(ws, Sp)
RuleLine(head, body) == Words(<<head, <<":", ":", "=">>, body>>)

\* the sequences of at most n members of a set
UpTo(n, S) == UNION { [1..k -> S] : k \in 0..n }

\* a text laid out plainly: every line ended by a newline, no comment
Plain(lines) == [lines |-> lines, term |-> Newline, comment |-> "none"]

\* all plain texts of at most MaxRules lines drawn from a set of lines
Sources(lines) == { Plain(l) : l \in UpTo(MaxRules, lines) }

Qx == <<"'", "x", "'">>
Qz == <<"'", "z", "'">>
Store == <<"s", "t", "o", "r", "e">>

\* rule bodies: every kind of node, references to defined and undefined rules,
\* a call with an argument and a context action
GeneralBodies ==
    { Qx,
      <<"a">>,
      <<"b">>,
      Words(<< <<"b", "+">>, Qx >>),
      Words(<< <<"a">>, <<"|">>, Qx \o <<".", ".">> \o Qz >>),
      Words(<< <<"(">>, <<"d">>, <<")">> >>),
      Words(<< <<"[">>, <<"a">>, <<"]">>, <<"b">>, <<"*">> >>),
      Words(<< Qx, <<"{">> \o Store \o <<"(", "k", ",", " ", "v", ")", "}">> >>),
      <<"b", "[", "p", "]">> }

\* the rules a and b with each body, b with a formal parameter, and a line the
\* parser refuses
GeneralLines ==
    { RuleLine(h, b) : h \in { <<"a">>, <<"b">> }, b \in GeneralBodies }
    \cup { RuleLine(<<"b", "[", "q", ":", "e", "n", "u", "m", "{", "u", "}", "]">>, Qx),
           RuleLine(<<"a">>, Words(<< <<"b">>, <<"[">>, Qx, <<"]">> >>)) }

\* rules under the special names and under plain ones, with and without a
\* reference to a, and a line the parser refuses
StartHeads ==
    { <<"j","s","o","n">>, <<"p","r","o","g","r","a","m">>, <<"s","t","a","r","t">>,
      <<"g","r","a","m","m","a","r">>, <<"r","o","o","t">>, <<"a">>, <<"b">> }

StartLines ==
    { RuleLine(h, b) : h \in StartHeads,
                       b \in { Qx, Words(<< Qx, <<"(">>, <<"a">>, <<")">> >>) } }
    \cup { <<"a", " ", ":", ":", "=">> }

\* one rule whose body opens a brace, or a repetition and then a brace, and goes
\* on with at most MaxBrace lexemes
BraceWords == { Store, <<"(">>, <<")">>, <<"{">>, <<"}">> }

BraceSources ==
    { Plain(<< RuleLine(<<"a">>, Words(opening \o ws)) >>) :
        opening \in { << <<"{">> >>, << <<"{">>, Qx, <<"}">>, <<"{">> >> },
        ws \in UpTo(MaxBrace, BraceWords) }

\* texts of plain rules laid out in each way: lines ended by a newline, by a
\* semicolon and a newline, by a semicolon and a space, and lines ended by a
\* newline with a comment before or at the end of each
LayoutLines ==
    { RuleLine(<<"a">>, Qx),
      RuleLine(<<"b">>, Words(<< <<"a">>, Qx >>)),
      RuleLine(<<"a">>, Words(<< <<"b">>, <<"|">>, Qx >>)) }

Layouts ==
    { [term |-> Newline, comment |-> "none"],
      [term |-> <<";", "\n">>, comment |-> "none"],
      [term |-> <<";", " ">>, comment |-> "none"],
      [term |-> Newline, comment |-> "line"],
      [term |-> Newline, comment |-> "trailing"] }

LayoutSources ==
    { [lines |-> l, term |-> y.term, comment |-> y.comment] :
        l \in UpTo(MaxRules, LayoutLines), y \in Layouts }

\* a part of the state that a run does not use
Unused == [pc |-> "unused"]

InitFrom(sources) ==
    /\ pc = "start"
    /\ src \in sources
    /\ tokens = << >>
    /\ parser = ParserStart
    /\ grammar = NoGrammar
    /\ val = ValidationStart
    /\ outcome = NotYet
    /\ printed = Unused
    /\ cli = Unused
    /\ tk = Unused
    /\ gp = Unused
    /\ utf = Unused

Init == InitFrom(Sources(GeneralLines))
InitStart == InitFrom(Sources(StartLines))
InitBrace == InitFrom(BraceSources)
InitLayout == InitFrom(LayoutSources)

Spec == Init /\ [][Next]_vars
SpecStart == InitStart /\ [][Next]_vars
SpecBrace == InitBrace /\ [][Next]_vars
SpecLayout == InitLayout /\ [][Next]_vars

-----------------------------------------------------------------------------
(* What the claims speak of, stated apart from the code above *)

\* the direct children of a node
Children(node) ==
    CASE node.t = "Alternative" -> Range(node.choices)
      [] node.t = "Sequence" -> Range(node.elements)
      [] node.t \in {"Group", "Optional", "ZeroOrMore", "OneOrMore"} -> {node.content}
      [] OTHER -> {}

RECURSIVE NodesIn(_)
\* a node and every node below it
NodesIn(node) == {node} \cup UNION { NodesIn(c) : c \in Children(node) }

\* the names a node refers to, at any depth
NonTerminalsIn(node) == { n.name : n \in { m \in NodesIn(node) : m.t = "NonTerminal" } }

RuleNames(g) == { g.rules[i].leftSide : i \in DOMAIN g.rules }

Referenced(g) == UNION { NonTerminalsIn(g.rules[i].rightSide) : i \in DOMAIN g.rules }

\* validateGrammar has run to its end on a grammar that has rules
Validated == pc \in {"validated", "done"} /\ grammar # NoGrammar /\ grammar.rules # << >>

\* whether one sequence occurs inside another
Contains(hay, needle) ==
    \E i \in 1..(Len(hay) - Len(needle) + 1) : SubSeq(hay, i, i + Len(needle) - 1) = needle

\* the errors of a given kind, as the set of names they report
Reported(prefix) ==
    { Tail(e) : e \in { m \in Range(val.result.errors) : Head(m) = prefix } }

-----------------------------------------------------------------------------
(* C1 *)

RECURSIVE Derives(_, _)
\* the productivity rules as C1 lists them, relative to a set P of rule names
\* taken to be productive; a node of a kind the rules do not list derives nothing
Derives(node, P) ==
    CASE node.t \in {"Terminal", "CharRange"} -> TRUE
      [] node.t = "NonTerminal" -> node.name \in P
      [] node.t = "Alternative" -> \E c \in Children(node) : Derives(c, P)
      [] node.t = "Sequence" -> \A c \in Children(node) : Derives(c, P)
      [] node.t \in {"Group", "OneOrMore"} -> Derives(node.content, P)
      [] node.t \in {"Optional", "ZeroOrMore"} -> TRUE
      [] OTHER -> FALSE

\* P is closed under the rules: a name with a rule whose body derives is in P
ClosedUnderRules(g, P) ==
    \A i \in DOMAIN g.rules : Derives(g.rules[i].rightSide, P) => g.rules[i].leftSide \in P

\* the least fixed point: the names that lie in every closed set
LeastFixedPoint(g) ==
    { n \in RuleNames(g) : \A P \in SUBSET RuleNames(g) : ClosedUnderRules(g, P) => n \in P }

\* C1: validateGrammar reports "Non-productive non-terminal: R", and says the
\* grammar is not valid, for exactly the rules R outside the least fixed point
\* of the productivity rules; and the loop that computes it ends, after at most
\* one pass more than there are rule names.
C1_NonProductiveIsOutsideLeastFixedPoint ==
    /\ pc = "productivity" => val.passes <= Cardinality(RuleNames(grammar)) + 1
    /\ Validated =>
         /\ ~val.changed
         /\ Reported("Non-productive non-terminal: ")
              = RuleNames(grammar) \ LeastFixedPoint(grammar)
         /\ RuleNames(grammar) \ LeastFixedPoint(grammar) # {} => ~val.result.isValid

\* a grammar with a rule that derives only through itself, which is reported,
\* and a rule that derives, which is not
C1_Witness ==
    /\ pc = "done" /\ Validated
    /\ \E i, j \in DOMAIN grammar.rules :
          /\ grammar.rules[i].rightSide = NonTerminal(grammar.rules[i].leftSide, << >>)
          /\ grammar.rules[i].leftSide \in Reported("Non-productive non-terminal: ")
          /\ grammar.rules[j].leftSide \notin Reported("Non-productive non-terminal: ")
          /\ grammar.rules[j].leftSide \in val.productive

-----------------------------------------------------------------------------
(* C2 *)

\* a body that is terminals followed by one context action
TerminalsThenAction(node) ==
    /\ node.t = "Sequence"
    /\ node.elements[Len(node.elements)].t = "ContextAction"
    /\ \A k \in 1..(Len(node.elements) - 1) : node.elements[k].t = "Terminal"

\* C2: a rule whose body is productive elements followed by a context action is
\* not reported as non-productive, and fromString returns a grammar made of
\* such rules alone.
C2_ContextActionIsProductive ==
    /\ Validated =>
         \A i \in DOMAIN grammar.rules :
            TerminalsThenAction(grammar.rules[i].rightSide)
              => grammar.rules[i].leftSide \notin Reported("Non-productive non-terminal: ")
    /\ (pc = "done" /\ Validated /\ Len(grammar.rules) = 1
        /\ TerminalsThenAction(grammar.rules[1].rightSide)) => outcome = Returned

-----------------------------------------------------------------------------
(* C3 *)

\* C3: validateGrammar reports "Undefined non-terminal: n", and says the
\* grammar is not valid, for every name n that a rule body refers to and no
\* rule defines, and for no other name.
C3_UndefinedIsReferencedAndNotDefined ==
    Validated =>
      /\ Reported("Undefined non-terminal: ") = Referenced(grammar) \ RuleNames(grammar)
      /\ Referenced(grammar) \ RuleNames(grammar) # {} => ~val.result.isValid

\* a name that no rule defines, referred to from inside a group, is reported
C3_Witness ==
    /\ pc = "done" /\ Validated
    /\ \E i \in DOMAIN grammar.rules :
          /\ grammar.rules[i].rightSide.t = "Group"
          /\ NonTerminalsIn(grammar.rules[i].rightSide) \ RuleNames(grammar) # {}
          /\ NonTerminalsIn(grammar.rules[i].rightSide) \ RuleNames(grammar)
               \subseteq Reported("Undefined non-terminal: ")
    /\ ~val.result.isValid

-----------------------------------------------------------------------------
(* C4 *)

\* C4: fromString lexes, then parses, then validates; it returns the grammar
\* only when validateGrammar reported no error, and whenever there is no error,
\* warnings or not; when there is an error it throws, and what it throws holds
\* every error and every warning.
C4_ReturnsOnlyWithoutErrors ==
    /\ pc \in {"start", "lexed"} => grammar = NoGrammar /\ parser = ParserStart
    /\ pc \in {"start", "lexed", "parsed"} => val = ValidationStart /\ outcome = NotYet
    /\ pc = "done" =>
         /\ outcome = Returned <=> (grammar # NoGrammar /\ val.result.errors = << >>)
         /\ (grammar # NoGrammar /\ val.result.errors # << >>) =>
               /\ outcome.kind = "thrown"
               /\ \A e \in Range(val.result.errors) : Contains(outcome.what, e)
               /\ \A w \in Range(val.result.warnings) : Contains(outcome.what, w)

\* a grammar with an error and a warning: fromString threw
C4_Witness ==
    /\ pc = "done" /\ grammar # NoGrammar
    /\ val.result.errors # << >> /\ val.result.warnings # << >>
    /\ outcome.kind = "thrown"

-----------------------------------------------------------------------------
(* C5 *)

\* the special names, highest priority first
StartNames == << <<"j","s","o","n">>, <<"p","r","o","g","r","a","m">>,
                <<"s","t","a","r","t">>, <<"g","r","a","m","m","a","r">>,
                <<"r","o","o","t">> >>

\* the start symbol as C5 states it; refers[i] says whether rule i counts as
\* referring to a non-terminal
StatedStart(g, refers) ==
    IF \E k \in DOMAIN StartNames : StartNames[k] \in RuleNames(g)
      THEN StartNames[CHOOSE k \in DOMAIN StartNames :
                         /\ StartNames[k] \in RuleNames(g)
                         /\ \A l \in 1..(k - 1) : StartNames[l] \notin RuleNames(g)]
    ELSE IF \E i \in DOMAIN g.rules : refers[i]
      THEN g.rules[CHOOSE i \in DOMAIN g.rules :
                      refers[i] /\ \A j \in 1..(i - 1) : ~refers[j]].leftSide
    ELSE g.rules[1].leftSide

\* the rule refers to a non-terminal other than the one it defines
RefersToAnother(rule) == NonTerminalsIn(rule.rightSide) \ {rule.leftSide} # {}

\* the rule refers to a non-terminal, be it the one it defines
RefersToAny(rule) == NonTerminalsIn(rule.rightSide) # {}

\* parseGrammar has returned a grammar that has rules
Parsed == pc = "parsed" /\ grammar # NoGrammar /\ grammar.rules # << >>

\* C5 as stated: the first special name in priority order, else the first rule
\* whose body refers to another non-terminal, else the first rule.
C5_StartSymbolAsStated ==
    Parsed => grammar.startSymbol
                = StatedStart(grammar, [i \in DOMAIN grammar.rules |->
                                           RefersToAnother(grammar.rules[i])])

\* C5 amended: the first special name in priority order, else the first rule
\* whose body refers to any non-terminal, the rule's own name included, else
\* the first rule.
C5_StartSymbol ==
    Parsed => grammar.startSymbol
                = StatedStart(grammar, [i \in DOMAIN grammar.rules |->
                                           RefersToAny(grammar.rules[i])])

\* no special name; the first rule refers to itself alone and the second to the
\* first: the first rule is the start
C5_Witness ==
    /\ Parsed
    /\ Len(grammar.rules) = 2
    /\ RuleNames(grammar) \cap Range(StartNames) = {}
    /\ NonTerminalsIn(grammar.rules[1].rightSide) = {grammar.rules[1].leftSide}
    /\ RefersToAnother(grammar.rules[2])
    /\ grammar.startSymbol = grammar.rules[1].leftSide

-----------------------------------------------------------------------------
(* C6, C7 *)

\* parseGrammar on the lines of a text laid out plainly
PlainParse(s) == parseGrammar(tokenize(SourceText(Plain(s.lines))).tokens)

\* parseGrammar, on the text as it is, did what it does on the plain text
ParsesAsPlain ==
    /\ parser.err = EmptyStr
    /\ grammar # NoGrammar
    /\ grammar.rules = PlainParse(src).grammar.rules

\* C6: rules that parse when each ends with a newline parse to the same rules,
\* with no error, when a ';' is written after each.
C6_SemicolonEndsARule ==
    (pc = "parsed" /\ src.term # Newline /\ PlainParse(src).grammar # NoGrammar)
      => ParsesAsPlain

\* C7: a comment on a line of its own, or after the expression of a rule on the
\* same line, leaves the result of parseGrammar as it is without the comment.
C7_CommentsAreSkipped ==
    (pc = "parsed" /\ src.comment # "none" /\ PlainParse(src).grammar # NoGrammar)
      => ParsesAsPlain

-----------------------------------------------------------------------------
(* C8 *)

\* the tokens after the '{' that parsePrimary met at cursor at are IDENTIFIER '('
IdentifierThenParen(at) ==
    /\ at + 3 <= Len(tokens)
    /\ tokens[at + 2].type = "IDENTIFIER"
    /\ tokens[at + 3].type = "LEFT_PAREN"

\* C8: at a '{' parsePrimary parses a context action exactly when IDENTIFIER '('
\* follows; either way the lookahead leaves the cursor on the '{'; otherwise the
\* node is ZeroOrMore of the expression after the '{', closed by '}'.
C8_BraceLookahead ==
    \A k \in DOMAIN parser.braces :
       LET e == parser.braces[k] IN
       /\ tokens[e.at + 1].type = "LEFT_BRACE"
       /\ e.action <=> IdentifierThenParen(e.at)
       /\ e.resume = e.at
       /\ e.action => e.made.t \in {"ContextAction", "null"}
       /\ ~e.action => e.made.t \in {"ZeroOrMore", "null"}
       /\ e.made.t = "ZeroOrMore" =>
            /\ tokens[e.stop].type = "RIGHT_BRACE"
            /\ e.made.content
                 = parseExpression(tokens, [ParserStart EXCEPT !.cur = e.at + 1]).node

\* a repetition and a context action in one body, each parsed as what it is
C8_Witness ==
    /\ pc = "parsed"
    /\ \E k, l \in DOMAIN parser.braces :
          /\ parser.braces[k].action /\ parser.braces[k].made.t = "ContextAction"
          /\ ~parser.braces[l].action /\ parser.braces[l].made.t = "ZeroOrMore"

-----------------------------------------------------------------------------
(* C9 *)

\* C9: a grammar in which two rules bear the same name is not valid.
C9_DuplicateRuleNamesRejected ==
    (Validated /\ \E i, j \in DOMAIN grammar.rules :
                     i # j /\ grammar.rules[i].leftSide = grammar.rules[j].leftSide)
      => ~val.result.isValid /\ val.result.errors # << >>

-----------------------------------------------------------------------------
(* C10 *)

\* the names of the formal parameters of a rule
Formals(rule) == { rule.parameters[k].name : k \in DOMAIN rule.parameters }

\* a call in the body of rule caller fits the rule callee: as many arguments as
\* formal parameters, each a formal parameter of the caller or an enumeration
\* value of the parameter it is passed for
CallFits(caller, call, callee) ==
    /\ Len(call.parameterValues) = Len(callee.parameters)
    /\ \A k \in DOMAIN call.parameterValues :
          \/ call.parameterValues[k] \in Formals(caller)
          \/ call.parameterValues[k] \in Range(callee.parameters[k].enumValues)

\* C10: validateGrammar reports an error for a call that does not fit the rule
\* it calls.
C10_CallsFitTheirRules ==
    (Validated /\ \E i, j \in DOMAIN grammar.rules :
                     \E call \in NodesIn(grammar.rules[i].rightSide) :
                        /\ call.t = "NonTerminal"
                        /\ call.name = grammar.rules[j].leftSide
                        /\ call.parameterValues # << >>
                        /\ ~CallFits(grammar.rules[i], call, grammar.rules[j]))
      => ~val.result.isValid /\ val.result.errors # << >>

-----------------------------------------------------------------------------
(* C11 *)

\* rules whose body is a character range in rising, falling and level order, a
\* range between terminals that are not single characters, a range left open
\* and a plain terminal
RangeBodies ==
    { Qx \o <<".", ".">> \o Qz,
      Qz \o <<".", ".">> \o Qx,
      Qx \o <<".", ".">> \o Qx,
      <<"'", "x", "z", "'">> \o <<".", ".">> \o Qx,
      Qx \o <<".", ".">>,
      Qx }

RangeLines == { RuleLine(h, b) : h \in { <<"a">>, <<"b">> }, b \in RangeBodies }

InitRange == InitFrom(Sources(RangeLines))

SpecRange == InitRange /\ [][Next]_vars

\* the character ranges of a grammar
CharRangesOf(g) ==
    UNION { { n \in NodesIn(g.rules[i].rightSide) : n.t = "CharRange" } :
              i \in DOMAIN g.rules }

\* C11: no grammar returned by parseGrammar holds a character range whose start
\* is greater than its end; such a range makes parseGrammar return no grammar
\* and set the error.
C11_NoFallingRange ==
    (pc = "parsed" /\ grammar # NoGrammar)
      => \A r \in CharRangesOf(grammar) : r.start <= r.end

-----------------------------------------------------------------------------
(* C12 *)

\* grammars of one rule more than MaxRules, so that a name can have two rules
\* and still refer to a third: a and b each with a terminal and with a reference
\* to the other, and c with a reference to b
ReachLines ==
    { RuleLine(<<"a">>, Qx), RuleLine(<<"a">>, <<"b">>),
      RuleLine(<<"b">>, Qx), RuleLine(<<"b">>, Words(<< <<"[">>, <<"a">>, <<"]">>, Qx >>)),
      RuleLine(<<"c">>, Words(<< <<"(">>, <<"b">>, <<")">>, <<"|">>, Qx >>)),
      RuleLine(<<"a">>, <<"|">>) }

ReachSources == { Plain(l) : l \in UpTo(MaxRules + 1, ReachLines) }

InitReach == InitFrom(ReachSources)

SpecReach == InitReach /\ [][Next]_vars

\* the names the rules named by a member of S refer to
RefersFrom(g, S) ==
    UNION { NonTerminalsIn(g.rules[i].rightSide) :
              i \in { j \in DOMAIN g.rules : g.rules[j].leftSide \in S } }

RECURSIVE ReachClosure(_, _)
\* the closure of a set of names over the references of the rules
ReachClosure(g, S) ==
    IF RefersFrom(g, S) \subseteq S THEN S ELSE ReachClosure(g, S \cup RefersFrom(g, S))

\* how many warnings say that a name is unreachable
UnreachableWarnings(name) ==
    Cardinality({ i \in DOMAIN val.result.warnings :
                    val.result.warnings[i] = <<"Unreachable non-terminal: ">> \o name })

\* C12: a rule outside the closure of startSymbol over the references gets
\* exactly one warning that it is unreachable, a rule inside the closure gets
\* none, and unreachability is never an error: isValid is false only with an
\* error, and no error speaks of an unreachable name.
C12_UnreachableWarnedOnce ==
    Validated =>
      /\ \A n \in RuleNames(grammar) :
            UnreachableWarnings(n) =
               IF n \in ReachClosure(grammar, {grammar.startSymbol}) THEN 0 ELSE 1
      /\ \A i \in DOMAIN val.result.errors :
            Head(val.result.errors[i]) # "Unreachable non-terminal: "
      /\ (~val.result.isValid => val.result.errors # << >>)

-----------------------------------------------------------------------------
(* Grammar::toString (bnf_ast.hpp, bnf_ast.cpp) *)

HexDigitSeq == DigitSeq \o <<"a", "b", "c", "d", "e", "f">>

RECURSIVE HexField(_, _)
\* oss << std::hex << std::setw(width) << std::setfill('0') << cp
HexField(cp, width) ==
    IF cp < 16 /\ width <= 1 THEN <<HexDigitSeq[cp + 1]>>
    ELSE HexField(cp \div 16, width - 1) \o <<HexDigitSeq[(cp % 16) + 1]>>

\* the lambda codepointToString of CharRange::toString
codepointToString(cp) ==
    IF cp <= 127 /\ cp >= 32 /\ cp # 92 /\ cp # 39
      THEN <<"'">> \o codepointToUtf8(cp).bytes \o <<"'">>
    ELSE IF cp <= 65535
      THEN <<"'", "\\", "u">> \o HexField(cp, 4) \o <<"'">>
    ELSE <<"'", "\\", "U">> \o HexField(cp, 8) \o <<"'">>

\* arguments[i] of ContextAction::toString (i counts from 0); reading past the
\* end of the vector is undefined, which OutOfBounds stands for
OutOfBounds == "<out of bounds>"
ArgumentAt(arguments, i) ==
    IF i < Len(arguments) THEN arguments[i + 1] ELSE <<OutOfBounds>>

\* ContextAction::toString
ContextActionToString(node) ==
    <<"{">>
    \o (CASE node.actionType = "STORE" ->
               <<"s","t","o","r","e","(">> \o ArgumentAt(node.arguments, 0)
               \o <<",", " ">> \o ArgumentAt(node.arguments, 1) \o <<")">>
          [] node.actionType = "LOOKUP" ->
               <<"l","o","o","k","u","p","(">> \o ArgumentAt(node.arguments, 0) \o <<")">>
          [] node.actionType = "CHECK" ->
               <<"c","h","e","c","k","(">> \o ArgumentAt(node.arguments, 0) \o <<")">>)
    \o <<"}">>

\* NonTerminal::toString
NonTerminalToString(node) ==
    <<"<">> \o node.name
    \o (IF node.parameterValues # << >>
          THEN <<"[">> \o JoinWith(node.parameterValues, <<",", " ">>) \o <<"]">>
          ELSE EmptyStr)
    \o <<">">>

RECURSIVE NodeToString(_)
\* ASTNode::toString of each kind of node
NodeToString(node) ==
    CASE node.t = "Terminal" -> <<"\"">> \o node.value \o <<"\"">>
      [] node.t = "NonTerminal" -> NonTerminalToString(node)
      [] node.t = "CharRange" ->
           codepointToString(node.start) \o <<".", ".">> \o codepointToString(node.end)
      [] node.t = "Alternative" ->
           JoinWith([i \in DOMAIN node.choices |-> NodeToString(node.choices[i])],
                    <<" ", "|", " ">>)
      [] node.t = "Sequence" ->
           JoinWith([i \in DOMAIN node.elements |-> NodeToString(node.elements[i])],
                    <<" ">>)
      [] node.t = "Group" -> <<"(">> \o NodeToString(node.content) \o <<")">>
      [] node.t = "Optional" -> <<"[">> \o NodeToString(node.content) \o <<"]">>
      [] node.t = "ZeroOrMore" -> <<"{">> \o NodeToString(node.content) \o <<"}">>
      [] node.t = "OneOrMore" -> NodeToString(node.content) \o <<"+">>
      [] node.t = "ContextAction" -> ContextActionToString(node)

\* RuleParameter::toString
RuleParameterToString(param) ==
    CASE param.type = "ENUM" ->
           param.name \o <<":", "{">> \o JoinWith(param.enumValues, <<",">>) \o <<"}">>
      [] param.type = "INTEGER" -> param.name \o <<":", "i", "n", "t">>
      [] param.type = "STRING" -> param.name \o <<":", "s", "t", "r", "i", "n", "g">>
      [] param.type = "BOOLEAN" -> param.name \o <<":", "b", "o", "o", "l">>

\* ProductionRule::toString
ProductionRuleToString(rule) ==
    rule.leftSide
    \o (IF rule.parameters # << >>
          THEN <<"[">>
               \o JoinWith([i \in DOMAIN rule.parameters |->
                               RuleParameterToString(rule.parameters[i])], <<",", " ">>)
               \o <<"]">>
          ELSE EmptyStr)
    \o <<" ", ":", ":", "=", " ">> \o NodeToString(rule.rightSide)

\* Grammar::toString
GrammarToString(g) ==
    <<"#", " ", "G", "r", "a", "m", "m", "a", "r", " ", "(", "s", "t", "a", "r", "t", ":", " ">>
    \o g.startSymbol \o <<")", "\n">>
    \o Concat([i \in DOMAIN g.rules |-> ProductionRuleToString(g.rules[i]) \o <<"\n">>])

\* grammar->toString() on the grammar parseGrammar returned; a read out of
\* bounds leaves the text, and whether there is one, open
ToStringCall ==
    /\ pc = "parsed"
    /\ grammar # NoGrammar
    /\ printed = Unused
    /\ cli = Unused
    /\ LET text == GrammarToString(grammar) IN
       IF OutOfBounds \in Range(text)
         THEN printed' \in { [pc |-> "crashed"], [pc |-> "returned", text |-> EmptyStr],
                             [pc |-> "returned", text |-> text] }
         ELSE printed' = [pc |-> "returned", text |-> text]
    /\ UNCHANGED <<pc, src, tokens, parser, grammar, val, outcome, tk, gp, utf, cli>>

NextToString == Next \/ ToStringCall

\* rules with and without formal parameters, over bodies of every kind of node
PrintedHeads ==
    { <<"a">>, <<"b">>,
      <<"b", "[", "q", ":", "e", "n", "u", "m", "{", "u", ",", "v", "}", "]">>,
      <<"b", "[", "n", ":", "i", "n", "t", "]">> }

PrintedBodies ==
    { Qx,
      <<"b">>,
      <<"b", "[", "p", "]">>,
      Words(<< <<"b">>, <<"a", "?">> >>),
      Words(<< <<"a", "?">>, <<"b">>, <<"|">>, Qx \o <<".", ".">> \o Qz >>),
      Words(<< <<"(">>, <<"a">>, <<"|">>, Qx, <<")">>, <<"+">> >>),
      Words(<< <<"{">>, Qx, <<"}">>, <<"[">>, <<"a">>, <<"]">> >>),
      Words(<< Qx, <<"{">> \o Store \o <<"(", "k", ",", " ", "v", ")", "}">> >>),
      <<"a", " ", "|">> }

PrintedLines == { RuleLine(h, b) : h \in PrintedHeads, b \in PrintedBodies }

InitToString == InitFrom(Sources(PrintedLines))

SpecToString == InitToString /\ [][NextToString]_vars

-----------------------------------------------------------------------------
(* C13 *)

\* the text of toString lexed and parsed again
ParsedAgain == 
    LET l == tokenize(printed.text) IN
    IF l.error # EmptyStr THEN NoGrammar ELSE parseGrammar(l.tokens).grammar

\* C13: the text Grammar::toString gives for a grammar the parser returned is
\* lexed and parsed without error into a grammar with the same rules: the same
\* names and formal parameters in the same order, and equal expression trees.
C13_RoundTrip ==
    (printed.pc = "returned")
      => /\ ParsedAgain # NoGrammar
         /\ ParsedAgain.rules = grammar.rules

-----------------------------------------------------------------------------
(* C14 *)

MaxExtraDigits == 1    \* hex digits written beyond those an escape takes

\* a terminal holding one escape: \u or \U, then the first k of the digits
\* 0041 1.. or 00000041 1.., then nothing or a letter that is no hex digit;
\* the rule stands on the first line or on the second
EscapeDigits(kind) ==
    (IF kind = "u" THEN <<"0", "0", "4", "1">>
     ELSE <<"0", "0", "0", "0", "0", "0", "4", "1">>)
    \o [i \in 1..MaxExtraDigits |-> "1"]

EscapeLines ==
    UNION { { RuleLine(<<"a">>, <<"'", "\\", kind>> \o SubSeq(EscapeDigits(kind), 1, k)
                                \o tail \o <<"'">>) :
                k \in 0..Len(EscapeDigits(kind)), tail \in { << >>, <<"g">> } } :
            kind \in {"u", "U"} }

EscapeSources ==
    { Plain(before \o <<l>>) :
        before \in { << >>, << RuleLine(<<"b">>, Qx) >>, << RuleLine(<<"b">>, <<"|">>) >> },
        l \in EscapeLines }

InitEscape == InitFrom(EscapeSources)

SpecEscape == InitEscape /\ [][Next]_vars

\* the place of the backslash in a text that has one
BackslashAt(text) == CHOOSE i \in DOMAIN text : text[i] = "\\"

HexDigitChars ==
    {"0","1","2","3","4","5","6","7","8","9","a","b","c","d","e","f",
     "A","B","C","D","E","F"}

\* how many hex digits follow the letter of the escape, and how many it takes
DigitsWritten(text) ==
    LET from == BackslashAt(text) + 2 IN
    Cardinality({ n \in 1..(Len(text) - from + 1) :
                    \A j \in from..(from + n - 1) : text[j] \in HexDigitChars })

DigitsTaken(text) == IF text[BackslashAt(text) + 1] = "U" THEN 8 ELSE 4

\* line and column of the character after the digits written
LineOf(text, i) == 1 + Cardinality({ j \in 1..(i - 1) : text[j] = "\n" })
ColumnOf(text, i) ==
    i - (IF \E j \in 1..(i - 1) : text[j] = "\n"
           THEN CHOOSE j \in 1..(i - 1) : text[j] = "\n" /\ \A m \in (j + 1)..(i - 1) : text[m] # "\n"
           ELSE 0)

EscapeText == SourceText(src)
AfterDigits == BackslashAt(EscapeText) + 2 + DigitsWritten(EscapeText)

\* C14: an escape \u with fewer than 4 hex digits, or \U with fewer than 8,
\* makes the lexer throw an error that names the line and the column where the
\* digit is missing, and no token list is returned; an escape with its 4 or 8
\* digits is no such error and the token list is returned.
C14_EscapeDigitCount ==
    (pc # "start") =>
      IF DigitsWritten(EscapeText) < DigitsTaken(EscapeText)
        THEN /\ pc = "done"
             /\ outcome = Thrown(<<"Invalid Unicode escape sequence at line ",
                                   ToString(LineOf(EscapeText, AfterDigits)),
                                   ", column ",
                                   ToString(ColumnOf(EscapeText, AfterDigits))>>)
             /\ tokens = << >>
        ELSE /\ tokens # << >>
             /\ tokens[Len(tokens)].type = "EOF_TOKEN"
             /\ \E i \in DOMAIN tokens :
                   /\ tokens[i].type = "TERMINAL"
                   /\ tokens[i].value
                        = <<"A">> \o SubSeq(EscapeText, BackslashAt(EscapeText) + 2
                                                        + DigitsTaken(EscapeText),
                                            AfterDigits - 1)
                          \o (IF EscapeText[AfterDigits] = "g" THEN <<"g">> ELSE << >>)

\* a \U escape with 7 digits on the second line has made the lexer throw
C14_Witness ==
    /\ pc = "done"
    /\ outcome.kind = "thrown"
    /\ Head(outcome.what) = "Invalid Unicode escape sequence at line "
    /\ EscapeText[BackslashAt(EscapeText) + 1] = "U"
    /\ DigitsWritten(EscapeText) = 7
    /\ LineOf(EscapeText, AfterDigits) = 2
    /\ tokens = << >>

-----------------------------------------------------------------------------
(* GrammarBasedTokenizer (grammar_tokenizer.cpp): classification and patterns *)

\* A recursive member function that is called again with the arguments of a
\* call of it that is still running never returns: the calls nest until the
\* stack is exhausted.  The functions below carry the calls that are running
\* and give Overflow, or the pattern Overflowed, for that.
Overflow == "<stack overflow>"
Overflowed == <<Overflow>>

RECURSIVE isTerminalNode(_, _, _)
RECURSIVE AllTerminalNodes(_, _, _)
\* the loops of isTerminalNode over choices and elements: false at the first
\* member that is not terminal
AllTerminalNodes(g, nodes, running) ==
    IF nodes = << >> THEN "true"
    ELSE With([first \in {isTerminalNode(g, Head(nodes), running)} |->
         IF first = "true" THEN AllTerminalNodes(g, Tail(nodes), running)
         ELSE first])

\* GrammarBasedTokenizer::isTerminalNode: "true", "false", or Overflow
isTerminalNode(g, node, running) ==
    IF node \in running THEN Overflow
    ELSE CASE node.t \in {"Terminal", "CharRange"} -> "true"
           [] node.t = "Alternative" ->
                AllTerminalNodes(g, node.choices, running \cup {node})
           [] node.t = "Sequence" ->
                AllTerminalNodes(g, node.elements, running \cup {node})
           [] node.t \in {"Optional", "ZeroOrMore", "OneOrMore", "Group"} ->
                isTerminalNode(g, node.content, running \cup {node})
           [] node.t = "NonTerminal" ->
                With([rule \in {findRule(g, node.name)} |->
                    IF rule # Null
                      THEN isTerminalNode(g, rule.rightSide, running \cup {node})
                      ELSE "false"])
           [] OTHER -> "false"

\* GrammarBasedTokenizer::isTerminalRule
isTerminalRule(g, ruleName) ==
    With([rule \in {findRule(g, ruleName)} |->
        IF rule = Null THEN "false" ELSE isTerminalNode(g, rule.rightSide, {})])

RECURSIVE RulesAnswering(_, _, _)
\* one loop of getTokenTypes: the names of the rules from the i-th on whose
\* answer is want, in the order of the rules
RulesAnswering(g, answers, want) ==
    IF answers = << >> THEN << >>
    ELSE (IF Head(answers) = want
            THEN <<g.rules[Len(g.rules) - Len(answers) + 1].leftSide>> ELSE << >>)
         \o RulesAnswering(g, Tail(answers), want)

\* GrammarBasedTokenizer::getTokenTypes: the rule names, those of the terminal
\* rules first; overflow when a call of isTerminalRule does not return
getTokenTypes(g) ==
    With([answers \in {[i \in DOMAIN g.rules |-> isTerminalRule(g, g.rules[i].leftSide)]} |->
        IF \E i \in DOMAIN answers : answers[i] = Overflow
          THEN [overflow |-> TRUE, types |-> << >>]
          ELSE [overflow |-> FALSE,
                types |-> RulesAnswering(g, answers, "true")
                          \o RulesAnswering(g, answers, "false")]])

\* GrammarBasedTokenizer::escapeRegex
escapeRegex(str) ==
    Concat([i \in DOMAIN str |->
               IF str[i] \in {".", "^", "$", "*", "+", "?", "(", ")", "[", "]", "{", "}",
                              "|", "\\"}
                 THEN <<"\\", str[i]>> ELSE <<str[i]>>])

\* GrammarBasedTokenizer::generateCharRangeRegex; result += range->start appends
\* the code point converted to char
generateCharRangeRegex(range) ==
    <<"[">>
    \o (IF range.start <= range.end
          THEN <<Chr(range.start % 256), "-", Chr(range.end % 256)>> ELSE EmptyStr)
    \o <<"]">>

RECURSIVE FollowReferences(_, _, _)
\* the branch of generateRegexWithDepth for a NonTerminal, which calls it for
\* the right side of the rule one level deeper: the node and depth these calls
\* end at, a node that is no reference, or one of an undefined name, or any
\* node once the depth is over 100
FollowReferences(g, node, depth) ==
    IF depth > 100 \/ node.t # "NonTerminal" THEN [node |-> node, depth |-> depth]
    ELSE IF findRule(g, node.name) = Null THEN [node |-> Null, depth |-> depth]
    ELSE FollowReferences(g, findRule(g, node.name).rightSide, depth + 1)

RECURSIVE generateRegexWithDepth(_, _, _, _)
RECURSIVE JoinedRegex(_, _, _, _)
\* the loops of generateAlternativeRegex and generateSequenceRegex: the patterns
\* of the members, each from generateRegex, with sep between them
JoinedRegex(g, nodes, sep, running) ==
    IF nodes = << >> THEN EmptyStr
    ELSE With([first \in {generateRegexWithDepth(g, Head(nodes), 0, running)} |->
         IF first = Overflowed THEN Overflowed
         ELSE IF Len(nodes) = 1 THEN first
         ELSE With([rest \in {JoinedRegex(g, Tail(nodes), sep, running)} |->
              IF rest = Overflowed THEN Overflowed ELSE first \o sep \o rest])])

\* GrammarBasedTokenizer::generateRegexWithDepth and the functions it calls for
\* each kind of node; those call generateRegex, which starts from depth 0 again.
\* at is where the calls through NonTerminal nodes end.
generateRegexWithDepth(g, node, depth, running) ==
    With([at \in {FollowReferences(g, node, depth)} |->
    IF at.depth > 100 THEN EmptyStr
    ELSE IF <<at.node, at.depth>> \in running THEN Overflowed
    ELSE With([inside \in {running \cup {<<at.node, at.depth>>}} |->
      CASE at.node.t = "Terminal" -> escapeRegex(at.node.value)
        [] at.node.t = "CharRange" -> generateCharRangeRegex(at.node)
        [] at.node.t = "Alternative" ->
             With([r \in {JoinedRegex(g, at.node.choices, <<"|">>, inside)} |->
                 IF r = Overflowed THEN Overflowed ELSE <<"(">> \o r \o <<")">>])
        [] at.node.t = "Sequence" ->
             With([r \in {JoinedRegex(g, at.node.elements, EmptyStr, inside)} |->
                 IF r = Overflowed THEN Overflowed ELSE <<"(">> \o r \o <<")">>])
        [] at.node.t \in {"Optional", "ZeroOrMore", "OneOrMore", "Group"} ->
             With([r \in {generateRegexWithDepth(g, at.node.content, 0, inside)} |->
                 IF r = Overflowed THEN Overflowed
                 ELSE <<"(">> \o r \o <<")">>
                      \o (CASE at.node.t = "Optional" -> <<"?">>
                            [] at.node.t = "ZeroOrMore" -> <<"*">>
                            [] at.node.t = "OneOrMore" -> <<"+">>
                            [] at.node.t = "Group" -> EmptyStr)])
        [] OTHER -> EmptyStr])])

\* GrammarBasedTokenizer::generateRegex
generateRegex(g, node) == generateRegexWithDepth(g, node, 0, {})

-----------------------------------------------------------------------------
(* std::regex on the patterns generateRegex writes (ECMAScript grammar) *)

RChar(c) == [k |-> "char", c |-> c]
RSet(negated, items) == [k |-> "set", negated |-> negated, items |-> items]
RCat(parts) == [k |-> "cat", parts |-> parts]
RAlt(parts) == [k |-> "alt", parts |-> parts]
RRep(quantifier, r) == [k |-> "rep", quantifier |-> quantifier, r |-> r]
\* what the constructor answers with std::regex_error
RBad == [k |-> "regex_error"]

\* the character of a pattern at a place, NUL past its end
PatAt(pat, i) == IF i <= Len(pat) THEN pat[i] ELSE NUL

RECURSIVE ClassItems(_, _, _)
\* the members of a bracket expression from place i to its ']': single
\* characters and ranges lo-hi of byte values, a backslash naming the
\* character after it
ClassItems(pat, i, items) ==
    IF i > Len(pat) THEN [ok |-> FALSE, i |-> i, items |-> items]
    ELSE IF pat[i] = "]" THEN [ok |-> TRUE, i |-> i + 1, items |-> items]
    ELSE With([esc \in {IF pat[i] = "\\" THEN 1 ELSE 0} |->
         IF i + esc > Len(pat) THEN [ok |-> FALSE, i |-> i, items |-> items]
         ELSE With([lo \in {Ord(pat[i + esc])} |->
              With([j \in {i + esc + 1} |->
              IF PatAt(pat, j) = "-" /\ j + 1 <= Len(pat) /\ pat[j + 1] # "]"
                THEN With([esc2 \in {IF pat[j + 1] = "\\" THEN 1 ELSE 0} |->
                     IF j + 1 + esc2 > Len(pat) THEN [ok |-> FALSE, i |-> j, items |-> items]
                     ELSE With([hi \in {Ord(pat[j + 1 + esc2])} |->
                          IF lo > hi THEN [ok |-> FALSE, i |-> j, items |-> items]
                          ELSE ClassItems(pat, j + 2 + esc2,
                                          items \cup {[lo |-> lo, hi |-> hi]})])])
                ELSE ClassItems(pat, j, items \cup {[lo |-> lo, hi |-> lo]})])])])

RECURSIVE ParseDisjunction(_, _, _)
RECURSIVE ParseAlternativeTerms(_, _, _)

\* an atom of a pattern: a group, a bracket expression, an escaped character
\* or a character that stands for itself
ParseAtom(pat, i) ==
    IF pat[i] = "("
      THEN With([d \in {ParseDisjunction(pat, i + 1, << >>)} |->
           IF d.ok /\ PatAt(pat, d.i) = ")" THEN [ok |-> TRUE, i |-> d.i + 1, r |-> d.r]
           ELSE [ok |-> FALSE, i |-> d.i, r |-> RBad]])
    ELSE IF pat[i] = "["
      THEN With([negated \in {PatAt(pat, i + 1) = "^"} |->
           With([c \in {ClassItems(pat, IF negated THEN i + 2 ELSE i + 1, {})} |->
               [ok |-> c.ok, i |-> c.i, r |-> RSet(negated, c.items)]])])
    ELSE IF pat[i] = "\\"
      THEN IF i + 1 <= Len(pat) THEN [ok |-> TRUE, i |-> i + 2, r |-> RChar(pat[i + 1])]
           ELSE [ok |-> FALSE, i |-> i, r |-> RBad]
    ELSE IF pat[i] \in {"*", "+", "?", "{"}
      THEN [ok |-> FALSE, i |-> i, r |-> RBad]
    ELSE [ok |-> TRUE, i |-> i + 1, r |-> RChar(pat[i])]

\* the terms of one alternative: atoms, each with the quantifier after it
ParseAlternativeTerms(pat, i, terms) ==
    IF i > Len(pat) \/ PatAt(pat, i) \in {"|", ")"}
      THEN [ok |-> TRUE, i |-> i, r |-> RCat(terms)]
    ELSE With([a \in {ParseAtom(pat, i)} |->
         IF ~a.ok THEN a
         ELSE IF PatAt(pat, a.i) \in {"*", "+", "?"}
           THEN ParseAlternativeTerms(pat, a.i + 1, Append(terms, RRep(pat[a.i], a.r)))
           ELSE ParseAlternativeTerms(pat, a.i, Append(terms, a.r))])

\* alternatives separated by '|'
ParseDisjunction(pat, i, alternatives) ==
    With([a \in {ParseAlternativeTerms(pat, i, << >>)} |->
        IF ~a.ok THEN a
        ELSE IF PatAt(pat, a.i) = "|"
          THEN ParseDisjunction(pat, a.i + 1, Append(alternatives, a.r))
          ELSE [ok |-> TRUE, i |-> a.i, r |-> RAlt(Append(alternatives, a.r))]])

\* std::regex("^" + pattern): the expression the pattern stands for, tied to
\* the start of the text, or RBad where the constructor throws
CompileRegex(pattern) ==
    With([d \in {ParseDisjunction(pattern, 1, << >>)} |->
        IF d.ok /\ d.i > Len(pattern) THEN d.r ELSE RBad])

RECURSIVE MatchEnds(_, _, _)
RECURSIVE CatEnds(_, _, _)
RECURSIVE CatEndsFrom(_, _, _)
RECURSIVE StarEnds(_, _, _)
RECURSIVE StarEndsFrom(_, _, _)

\* The places where a match of an expression that starts at place p of a text
\* can end (places count the characters before them), in the order in which
\* the backtracking matcher tries them: the first alternative first, as many
\* repetitions as possible first.
CatEndsFrom(parts, text, starts) ==
    IF starts = << >> THEN << >>
    ELSE CatEnds(parts, text, Head(starts)) \o CatEndsFrom(parts, text, Tail(starts))

CatEnds(parts, text, p) ==
    IF parts = << >> THEN <<p>>
    ELSE CatEndsFrom(Tail(parts), text, MatchEnds(Head(parts), text, p))

StarEndsFrom(r, text, starts) ==
    IF starts = << >> THEN << >>
    ELSE StarEnds(r, text, Head(starts)) \o StarEndsFrom(r, text, Tail(starts))

\* r*: a repetition that matches nothing is not taken
StarEnds(r, text, p) ==
    StarEndsFrom(r, text, SelectSeq(MatchEnds(r, text, p), LAMBDA e : e > p)) \o <<p>>

MatchEnds(r, text, p) ==
    CASE r.k = "char" ->
           IF p < Len(text) /\ text[p + 1] = r.c THEN <<p + 1>> ELSE << >>
      [] r.k = "set" ->
           IF p < Len(text)
              /\ ((\E it \in r.items : Ord(text[p + 1]) >= it.lo /\ Ord(text[p + 1]) <= it.hi)
                    # r.negated)
             THEN <<p + 1>> ELSE << >>
      [] r.k = "cat" -> CatEnds(r.parts, text, p)
      [] r.k = "alt" ->
           Concat([i \in DOMAIN r.parts |-> MatchEnds(r.parts[i], text, p)])
      [] r.k = "rep" ->
           CASE r.quantifier = "?" -> MatchEnds(r.r, text, p) \o <<p>>
             [] r.quantifier = "*" -> StarEnds(r.r, text, p)
             [] r.quantifier = "+" -> StarEndsFrom(r.r, text, MatchEnds(r.r, text, p))

\* std::regex_search(substr, match, regex) with match.position() == 0: the
\* length of match.str(), or -1 when there is no match
regexMatchLength(regex, substr) ==
    With([ends \in {MatchEnds(regex, substr, 0)} |->
        IF ends = << >> THEN -1 ELSE Head(ends)])

-----------------------------------------------------------------------------
(* GrammarBasedTokenizer::tokenize *)

MatchResult(matched, tokenType, value, length) ==
    [matched |-> matched, tokenType |-> tokenType, value |-> value, length |-> length,
     overflow |-> FALSE]
NoMatch == MatchResult(FALSE, EmptyStr, EmptyStr, 0)
MatchOverflow == [NoMatch EXCEPT !.overflow = TRUE]

\* GrammarBasedTokenizer::tryMatchNode
tryMatchNode(g, input, pos, node, ruleName) ==
    With([pattern \in {generateRegex(g, node)} |->
        IF pattern = Overflowed THEN MatchOverflow
        ELSE IF pattern = EmptyStr THEN NoMatch
        ELSE With([regex \in {CompileRegex(pattern)} |->
             IF regex = RBad THEN NoMatch
             ELSE With([substr \in {SubSeq(input, pos + 1, Len(input))} |->
                  With([length \in {regexMatchLength(regex, substr)} |->
                      IF length >= 0
                        THEN MatchResult(TRUE, ruleName, SubSeq(substr, 1, length), length)
                        ELSE NoMatch])])])])

\* GrammarBasedTokenizer::tryMatchRule
tryMatchRule(g, input, pos, ruleName) ==
    With([rule \in {findRule(g, ruleName)} |->
        IF rule = Null THEN NoMatch
        ELSE tryMatchNode(g, input, pos, rule.rightSide, ruleName)])

RECURSIVE BestMatchLoop(_, _, _, _, _)
\* for (tokenType : tokenTypes) of tokenize: bestMatch after the loop
BestMatchLoop(g, input, pos, tokenTypes, bestMatch) ==
    IF tokenTypes = << >> THEN bestMatch
    ELSE With([m \in {tryMatchRule(g, input, pos, Head(tokenTypes))} |->
         IF m.overflow THEN m
         ELSE BestMatchLoop(g, input, pos, Tail(tokenTypes),
                            IF m.matched /\ m.length > bestMatch.length THEN m
                            ELSE bestMatch)])

\* GrammarBasedTokenizer::isWhitespace
isWhitespace(c) == c \in {" ", "\t", "\n", "\r"}

RECURSIVE SkipCommentLine(_, _)
\* while (pos < input.length() && input[pos] != '\n') pos++
SkipCommentLine(input, pos) ==
    IF pos < Len(input) /\ input[pos + 1] # "\n" THEN SkipCommentLine(input, pos + 1)
    ELSE pos

RECURSIVE skipWhitespaceAndComments(_, _, _)
\* GrammarBasedTokenizer::skipWhitespaceAndComments; this holds skipWhitespace_
\* and skipComments_, at holds pos, line, column
skipWhitespaceAndComments(this, input, at) ==
    IF at.pos >= Len(input) THEN at
    ELSE With([c \in {input[at.pos + 1]} |->
         IF this.skipWhitespace /\ isWhitespace(c)
           THEN skipWhitespaceAndComments(this, input,
                    IF c = "\n" THEN [pos |-> at.pos + 1, line |-> at.line + 1, column |-> 1]
                    ELSE [pos |-> at.pos + 1, line |-> at.line, column |-> at.column + 1])
         ELSE IF this.skipComments /\ c = "#"
           THEN skipWhitespaceAndComments(this, input,
                    [at EXCEPT !.pos = SkipCommentLine(input, at.pos)])
         ELSE at])

RECURSIVE AdvanceOver(_, _, _)
\* the loop of tokenize that moves pos, line and column over the match
AdvanceOver(input, at, length) ==
    IF length = 0 THEN at
    ELSE AdvanceOver(input,
             IF input[at.pos + 1] = "\n"
               THEN [pos |-> at.pos + 1, line |-> at.line + 1, column |-> 1]
               ELSE [pos |-> at.pos + 1, line |-> at.line, column |-> at.column + 1],
             length - 1)

\* Token (grammar_tokenizer.hpp)
GrammarToken(type, value, line, column, position) ==
    [type |-> type, value |-> value, line |-> line, column |-> column,
     position |-> position]

\* GrammarBasedTokenizer::GrammarBasedTokenizer: lastError_ empty, both skip
\* flags true; no call of tokenize yet.  erred is history: whether lastError_
\* was set when the running call of tokenize was entered
GrammarBasedTokenizer ==
    [pc |-> "idle", input |-> EmptyStr, pos |-> 0, line |-> 1, column |-> 1,
     tokens |-> << >>, lastError |-> EmptyStr,
     skipWhitespace |-> TRUE, skipComments |-> TRUE, calls |-> 0, erred |-> FALSE]

\* tokenize(input) entered: its locals, lastError_ cleared
tokenizeEntered(this, input) ==
    [this EXCEPT !.pc = "loop", !.input = input, !.pos = 0, !.line = 1, !.column = 1,
                 !.tokens = << >>, !.lastError = EmptyStr,
                 !.calls = @ + 1, !.erred = this.lastError # EmptyStr]

\* tokenize entered on a tokenizer as constructed
TokenizeStart(input) == tokenizeEntered(GrammarBasedTokenizer, input)

\* one turn of while (pos < input.length()) of tokenize
TokenizeTurn(g, t) ==
    With([at \in {IF t.skipWhitespace \/ t.skipComments
                     THEN skipWhitespaceAndComments(t, t.input,
                              [pos |-> t.pos, line |-> t.line, column |-> t.column])
                     ELSE [pos |-> t.pos, line |-> t.line, column |-> t.column]} |->
    IF at.pos >= Len(t.input)
      THEN [t EXCEPT !.pos = at.pos, !.line = at.line, !.column = at.column, !.pc = "break"]
    ELSE With([types \in {getTokenTypes(g)} |->
    IF types.overflow THEN [t EXCEPT !.pc = "overflow"]
    ELSE With([bestMatch \in {BestMatchLoop(g, t.input, at.pos, types.types, NoMatch)} |->
    IF bestMatch.overflow THEN [t EXCEPT !.pc = "overflow"]
    ELSE IF bestMatch.matched
      THEN With([after \in {AdvanceOver(t.input, at, bestMatch.length)} |->
           [t EXCEPT !.tokens = Append(@, GrammarToken(bestMatch.tokenType, bestMatch.value,
                                                       at.line, t.column, t.pos)),
                     !.pos = after.pos, !.line = after.line, !.column = after.column]])
      ELSE [t EXCEPT !.pos = at.pos, !.line = at.line, !.column = at.column,
                     !.lastError = <<"Unexpected character '", t.input[at.pos + 1],
                                     "' at line ", ToString(at.line),
                                     ", column ", ToString(at.column)>>,
                     !.pc = "break"]])])])

\* a turn of the loop that ends: a token, the error, or the end of the input
TokenizeStep ==
    /\ tk.pc = "loop"
    /\ tk.pos < Len(tk.input)
    /\ TokenizeTurn(grammar, tk).pc # "overflow"
    /\ tk' = TokenizeTurn(grammar, tk)
    /\ UNCHANGED <<pc, src, tokens, parser, grammar, val, outcome, printed, gp, utf, cli>>

\* a turn of the loop in which a recursion does not end: the process stops
TokenizeOverflow ==
    /\ tk.pc = "loop"
    /\ tk.pos < Len(tk.input)
    /\ TokenizeTurn(grammar, tk).pc = "overflow"
    /\ tk' = TokenizeTurn(grammar, tk)
    /\ UNCHANGED <<pc, src, tokens, parser, grammar, val, outcome, printed, gp, utf, cli>>

\* tokenize returning its list as the loop left it
TokenizeReturnBare ==
    /\ tk.pc = "break" \/ (tk.pc = "loop" /\ tk.pos >= Len(tk.input))
    /\ tk' = [tk EXCEPT !.pc = "returned"]
    /\ UNCHANGED <<pc, src, tokens, parser, grammar, val, outcome, printed, gp, utf, cli>>

\* after the loop: tokens.emplace_back("EOF", "", line, column, pos); return
TokenizeReturn ==
    /\ tk.pc = "break" \/ (tk.pc = "loop" /\ tk.pos >= Len(tk.input))
    /\ tk' = [tk EXCEPT !.tokens = Append(@, GrammarToken(<<"E", "O", "F">>, EmptyStr,
                                                          tk.line, tk.column, tk.pos)),
                        !.pc = "returned"]
    /\ UNCHANGED <<pc, src, tokens, parser, grammar, val, outcome, printed, gp, utf, cli>>

NextTokenizer == TokenizeStep \/ TokenizeOverflow \/ TokenizeReturn

MaxInput == 3      \* characters of a text given to the tokenizer

\* grammars for the tokenizer: rules of terminals and ranges, a rule that
\* refers to another, a rule with a context action, rules that refer to
\* themselves, and a reference to a name without a rule
TokenLines ==
    { RuleLine(<<"t">>, Qx),
      RuleLine(<<"k">>, Words(<< Qx, <<"|">>, Qx, <<"'", "y", "'">> >>)),
      RuleLine(<<"n">>, <<"(", "'", "x", "'", ".", ".", "'", "y", "'", ")", "+">>),
      RuleLine(<<"m">>, Words(<< <<"t">>, <<"'", "y", "'">>, <<"t", "?">> >>)),
      RuleLine(<<"s">>, Words(<< Qx, <<"'", "y", "'">>,
                                 <<"{">> \o Store \o <<"(", "k", ",", " ", "v", ")", "}">>,
                                 <<"|">>, Qx >>)),
      RuleLine(<<"e">>, Words(<< <<"'", "(", "'">>, <<"e">>, <<"|">>, Qx >>)),
      RuleLine(<<"w">>, Words(<< <<"u">>, <<"|">>, <<"(">>, <<"w">>, <<")">> >>)) }

\* the grammar texts: no rule, each rule alone, and each rule after one of
\* the two rules of terminals only
TokenSources ==
    { Plain(l) : l \in {<< >>} \cup { <<a>> : a \in TokenLines }
                       \cup { <<a, b>> : a \in { RuleLine(<<"t">>, Qx),
                                                 RuleLine(<<"k">>, Words(<< Qx, <<"|">>, Qx,
                                                                            <<"'", "y", "'">> >>)) },
                                         b \in TokenLines } }

TokenizerInputs ==
    UpTo(MaxInput, {"x", "y", " "}) \cup { <<"#", "y", "\n", "x">>, <<"x", "\n", "(">> }

\* a tokenizer constructed on a grammar the parser returned, and tokenize
\* entered with a text
InitTokenizer ==
    /\ pc = "unused"
    /\ src \in TokenSources
    /\ tokens = << >>
    /\ parser = ParserStart
    /\ grammar = parseGrammar(tokenize(SourceText(src)).tokens).grammar
    /\ val = ValidationStart
    /\ outcome = NotYet
    /\ printed = Unused
    /\ cli = Unused
    /\ tk \in { TokenizeStart(input) : input \in TokenizerInputs }
    /\ gp = Unused
    /\ utf = Unused

SpecTokenizer == InitTokenizer /\ [][NextTokenizer]_vars

-----------------------------------------------------------------------------
(* C15 *)

\* the positions in the grammar of the rules the classification calls terminal
TerminalLikeRules(g) ==
    { i \in DOMAIN g.rules : isTerminalRule(g, g.rules[i].leftSide) = "true" }

\* where the token recorded at a position begins, blanks and comments skipped
TokenStart(input, position) ==
    skipWhitespaceAndComments(GrammarBasedTokenizer, input,
                              [pos |-> position, line |-> 1, column |-> 1]).pos

MatchOfRule(g, input, p, i) == tryMatchRule(g, input, p, g.rules[i].leftSide)

SyntheticEOF(tok) == tok.type = <<"E", "O", "F">> /\ tok.value = EmptyStr

\* C15: every token the tokenizer emits is the match of a terminal-like rule
\* at the token's position, no terminal-like rule matches more characters
\* there, and no terminal-like rule declared earlier matches as many.
C15_LongestTerminalMatch ==
    tk.pc \in {"loop", "break", "returned"} =>
        \A j \in DOMAIN tk.tokens :
            ~SyntheticEOF(tk.tokens[j]) =>
                \E i \in TerminalLikeRules(grammar) :
                    /\ grammar.rules[i].leftSide = tk.tokens[j].type
                    /\ MatchOfRule(grammar, tk.input,
                                   TokenStart(tk.input, tk.tokens[j].position), i).matched
                    /\ MatchOfRule(grammar, tk.input,
                                   TokenStart(tk.input, tk.tokens[j].position), i).value
                         = tk.tokens[j].value
                    /\ \A h \in TerminalLikeRules(grammar) :
                          MatchOfRule(grammar, tk.input,
                                      TokenStart(tk.input, tk.tokens[j].position), h).length
                            <= Len(tk.tokens[j].value)
                    /\ \A h \in TerminalLikeRules(grammar) :
                          h < i =>
                            MatchOfRule(grammar, tk.input,
                                        TokenStart(tk.input, tk.tokens[j].position), h).length
                              < Len(tk.tokens[j].value)

-----------------------------------------------------------------------------
(* C16 *)

\* C16: for every grammar the classification of every rule returns, the
\* pattern of every rule is produced, and so no turn of the tokenizer's loop
\* ends in a recursion that does not return.
C16_SynthesisTerminates ==
    tk.pc # "unused" =>
        /\ tk.pc # "overflow"
        /\ \A i \in DOMAIN grammar.rules :
              /\ isTerminalRule(grammar, grammar.rules[i].leftSide) # Overflow
              /\ generateRegex(grammar, grammar.rules[i].rightSide) # Overflowed

-----------------------------------------------------------------------------
(* C17 *)

\* C17: the list tokenize returns ends with the token of type EOF and empty
\* value, that token occurs nowhere else in the list, and it is in no list
\* before tokenize returns.
C17_EndsWithOneEOF ==
    /\ tk.pc = "returned" =>
          /\ tk.tokens # << >>
          /\ \A j \in DOMAIN tk.tokens : SyntheticEOF(tk.tokens[j]) <=> j = Len(tk.tokens)
    /\ tk.pc \in {"loop", "break"} =>
          \A j \in DOMAIN tk.tokens : ~SyntheticEOF(tk.tokens[j])

\* tokenize returned after a token and then a character no rule matches
C17_Witness ==
    /\ tk.pc = "returned"
    /\ tk.lastError # EmptyStr
    /\ Len(tk.tokens) >= 2
    /\ SyntheticEOF(tk.tokens[Len(tk.tokens)])

\* tokenize returned with the whole input made into tokens
C17_WholeInput ==
    /\ tk.pc = "returned"
    /\ tk.lastError = EmptyStr
    /\ tk.pos = Len(tk.input)
    /\ Len(tk.tokens) >= 3

-----------------------------------------------------------------------------
(* The parser CppCodeGenerator emits (cpp_backend.hpp declares the visit
   methods; their bodies are not among the files).  The matching below is the
   matching semantics the specification gives for the emitted parse routines:
   recursive descent, ordered choice, save and restore of the byte cursor. *)

Matched(pos) == [r |-> "ok", pos |-> pos]
Failed(pos) == [r |-> "fail", pos |-> pos]
Endless == [r |-> "overflow", pos |-> 0]

\* the input at the cursor has the prefix s
HasPrefixAt(input, pos, s) ==
    /\ pos + Len(s) <= Len(input)
    /\ SubSeq(input, pos + 1, pos + Len(s)) = s

\* one iteration of the loop emitted for ZeroOrMore and OneOrMore, given the
\* outcome r of trying X from the saved cursor: next says whether the loop
\* goes on
LoopIteration(saved, r) ==
    IF r.r = "overflow" THEN [next |-> "overflow", pos |-> saved]
    ELSE IF r.r = "fail" THEN [next |-> "exit", pos |-> saved]
    ELSE IF r.pos = saved THEN [next |-> "exit", pos |-> saved]
    ELSE [next |-> "continue", pos |-> r.pos]

RECURSIVE GenMatch(_, _, _, _, _)
RECURSIVE GenSequence(_, _, _, _, _)
RECURSIVE GenAlternative(_, _, _, _, _)
RECURSIVE GenLoop(_, _, _, _, _)

\* Sequence(S1 .. Sn): execute Si in order; any failure fails
GenSequence(g, elements, input, pos, running) ==
    IF elements = << >> THEN Matched(pos)
    ELSE With([r \in {GenMatch(g, Head(elements), input, pos, running)} |->
         IF r.r = "ok" THEN GenSequence(g, Tail(elements), input, r.pos, running)
         ELSE r])

\* Alternative(A1 .. An): save cursor; try A1; on failure restore and try A2;
\* fail iff all fail
GenAlternative(g, choices, input, saved, running) ==
    IF choices = << >> THEN Failed(saved)
    ELSE With([r \in {GenMatch(g, Head(choices), input, saved, running)} |->
         IF r.r = "fail" THEN GenAlternative(g, Tail(choices), input, saved, running)
         ELSE r])

\* the loop of ZeroOrMore(X), from the cursor pos
GenLoop(g, content, input, pos, running) ==
    With([turn \in {LoopIteration(pos, GenMatch(g, content, input, pos, running))} |->
        IF turn.next = "overflow" THEN Endless
        ELSE IF turn.next = "exit" THEN Matched(turn.pos)
        ELSE GenLoop(g, content, input, turn.pos, running)])

\* the code emitted for a node, run with the cursor at pos; running holds the
\* parse routines entered and not yet left, each with the cursor it was
\* entered at: a routine entered again at the same cursor repeats itself
\* without end
GenMatch(g, node, input, pos, running) ==
    CASE node.t = "Terminal" ->
            IF HasPrefixAt(input, pos, node.value)
              THEN Matched(pos + Len(node.value)) ELSE Failed(pos)
      [] node.t = "CharRange" ->
            IF pos < Len(input) /\ Ord(input[pos + 1]) >= node.start
                                /\ Ord(input[pos + 1]) <= node.end
              THEN Matched(pos + 1) ELSE Failed(pos)
      [] node.t = "NonTerminal" ->
            With([rule \in {findRule(g, node.name)} |->
                IF rule = Null THEN Failed(pos)
                ELSE IF <<node.name, pos>> \in running THEN Endless
                ELSE With([r \in {GenMatch(g, rule.rightSide, input, pos,
                                           running \cup {<<node.name, pos>>})} |->
                     IF r.r = "fail" THEN Failed(pos) ELSE r])])
      [] node.t = "Alternative" -> GenAlternative(g, node.choices, input, pos, running)
      [] node.t = "Sequence" -> GenSequence(g, node.elements, input, pos, running)
      [] node.t = "Group" -> GenMatch(g, node.content, input, pos, running)
      [] node.t = "Optional" ->
            With([r \in {GenMatch(g, node.content, input, pos, running)} |->
                IF r.r = "fail" THEN Matched(pos) ELSE r])
      [] node.t = "ZeroOrMore" -> GenLoop(g, node.content, input, pos, running)
      [] node.t = "OneOrMore" ->
            With([r \in {GenMatch(g, node.content, input, pos, running)} |->
                IF r.r = "ok" THEN GenLoop(g, node.content, input, r.pos, running)
                ELSE r])
      [] OTHER -> Matched(pos)

\* the start symbol's rule, whose routine parse() invokes
StartRule(g) == findRule(g, g.startSymbol)

\* parse() called on an input
GenStart(input) ==
    [pc |-> "ready", input |-> input, cursor |-> 0, iterations |-> 0]

\* parse_<start> entered.  A body that is X* or X+ reaches its loop (X+ after
\* matching X once); any other body is run to its end.
GenEnter ==
    /\ gp.pc = "ready"
    /\ LET body == StartRule(grammar).rightSide
           first == With([r \in {GenMatch(grammar, body.content, gp.input, 0,
                                          {<<grammar.startSymbol, 0>>})} |-> r])
           whole == With([r \in {GenMatch(grammar, body, gp.input, 0,
                                          {<<grammar.startSymbol, 0>>})} |-> r])
       IN  IF body.t = "ZeroOrMore" THEN gp' = [gp EXCEPT !.pc = "loop"]
           ELSE IF body.t = "OneOrMore"
             THEN gp' = [gp EXCEPT !.pc = IF first.r = "ok" THEN "loop"
                                          ELSE IF first.r = "fail" THEN "failed"
                                          ELSE "overflow",
                                   !.cursor = first.pos]
           ELSE gp' = [gp EXCEPT !.pc = IF whole.r = "ok" THEN "matched"
                                        ELSE IF whole.r = "fail" THEN "failed"
                                        ELSE "overflow",
                                 !.cursor = whole.pos]
    /\ UNCHANGED <<pc, src, tokens, parser, grammar, val, outcome, printed, tk, utf, cli>>

\* the loop of ZeroOrMore and OneOrMore without the test for an empty match
GenLoopTurnUnguarded ==
    /\ gp.pc = "loop"
    /\ LET r == With([m \in {GenMatch(grammar, StartRule(grammar).rightSide.content,
                                      gp.input, gp.cursor,
                                      {<<grammar.startSymbol, 0>>})} |-> m])
       IN  gp' = [gp EXCEPT !.pc = IF r.r = "ok" THEN "loop" ELSE "matched",
                            !.cursor = IF r.r = "ok" THEN r.pos ELSE gp.cursor,
                            !.iterations = IF r.r = "ok" /\ @ <= Len(gp.input)
                                             THEN @ + 1 ELSE @]
    /\ UNCHANGED <<pc, src, tokens, parser, grammar, val, outcome, printed, tk, utf, cli>>

\* one iteration of the loop: save cursor, try X; on failure restore and
\* exit; on success without advance exit; otherwise continue
GenLoopTurn ==
    /\ gp.pc = "loop"
    /\ LET turn == With([m \in {GenMatch(grammar, StartRule(grammar).rightSide.content,
                                         gp.input, gp.cursor,
                                         {<<grammar.startSymbol, 0>>})} |->
                        LoopIteration(gp.cursor, m)])
       IN  gp' = [gp EXCEPT !.pc = IF turn.next = "continue" THEN "loop"
                                   ELSE IF turn.next = "exit" THEN "matched"
                                   ELSE "overflow",
                            !.cursor = turn.pos,
                            !.iterations = IF turn.next = "continue" THEN @ + 1 ELSE @]
    /\ UNCHANGED <<pc, src, tokens, parser, grammar, val, outcome, printed, tk, utf, cli>>

\* parse() after the start routine: the whole input must have been consumed
GenFinish ==
    /\ gp.pc \in {"matched", "failed"}
    /\ gp' = [gp EXCEPT !.pc = IF gp.pc = "matched" /\ gp.cursor = Len(gp.input)
                                 THEN "accepted" ELSE "rejected"]
    /\ UNCHANGED <<pc, src, tokens, parser, grammar, val, outcome, printed, tk, utf, cli>>

NextGenerated == GenEnter \/ GenLoopTurn \/ GenFinish

Qy == <<"'", "y", "'">>

\* bodies X* and X+ with X a terminal, a range, nullable in several ways, a
\* reference to a nullable rule
LoopBodies ==
    { <<"(">> \o Qx \o <<")", "*">>,
      <<"(">> \o Qx \o <<"?", ")", "*">>,
      <<"(">> \o Qx \o <<"?", ")", "+">>,
      <<"(">> \o Qx \o <<"*", ")", "+">>,
      <<"{", " ", "[", " ">> \o Qx \o <<" ", "]", " ", "}">>,
      <<"(">> \o Qy \o <<" ", "|", " ">> \o Qx \o <<"?", ")", "*">>,
      <<"(">> \o Qx \o <<" ">> \o Qy \o <<"?", ")", "+">>,
      <<"(", "'", "x", "'", ".", ".", "'", "y", "'", ")", "+">>,
      <<"(", "'", "'", ")", "*">>,
      <<"t", "*">>,
      <<"t", "+">> }

\* the grammars given to the generator: a rule whose body is a loop, with the
\* rule t it may refer to, and the left-recursive expr with its term
GeneratedSources ==
    { Plain(<< RuleLine(<<"a">>, b), RuleLine(<<"t">>, Qx \o <<"?">>) >>) : b \in LoopBodies }
    \cup { Plain(<< RuleLine(<<"e", "x", "p", "r">>,
                             Words(<< <<"e", "x", "p", "r">>, <<"'", "+", "'">>,
                                      <<"t", "e", "r", "m">>, <<"|">>,
                                      <<"t", "e", "r", "m">> >>)),
                    RuleLine(<<"t", "e", "r", "m">>, Qx) >>) }

\* the parser emitted for a grammar the parser returned, and parse() called
InitGenerated ==
    /\ pc = "unused"
    /\ src \in GeneratedSources
    /\ tokens = << >>
    /\ parser = ParserStart
    /\ grammar = parseGrammar(tokenize(SourceText(src)).tokens).grammar
    /\ val = ValidationStart
    /\ outcome = NotYet
    /\ printed = Unused
    /\ cli = Unused
    /\ tk = Unused
    /\ gp \in { GenStart(input) : input \in UpTo(MaxInput, {"x", "y", "+"}) }
    /\ utf = Unused

SpecGenerated == InitGenerated /\ [][NextGenerated]_vars

-----------------------------------------------------------------------------
(* C18 *)

\* the outcome of trying X, the content of the start rule's loop, at the cursor
TryContent ==
    GenMatch(grammar, StartRule(grammar).rightSide.content, gp.input, gp.cursor,
             {<<grammar.startSymbol, 0>>})

\* C18: an iteration of the loop emitted for X* or X+ in which X fails leaves
\* the loop with the cursor where the iteration began; an iteration in which
\* X succeeds without advancing the cursor leaves the loop too; an iteration
\* after which the loop goes on has advanced the cursor; so the loop makes at
\* most as many further iterations as characters remain, also when X can
\* match the empty string.
C18_LoopsTerminate ==
    /\ [][gp.pc = "loop" =>
            /\ TryContent.r = "fail" => gp'.pc = "matched" /\ gp'.cursor = gp.cursor
            /\ (TryContent.r = "ok" /\ TryContent.pos = gp.cursor) =>
                  gp'.pc = "matched" /\ gp'.cursor = gp.cursor
            /\ gp'.pc = "loop" => gp'.cursor > gp.cursor]_vars
    /\ [](gp.pc = "loop" => gp.cursor <= Len(gp.input) /\ gp.iterations <= gp.cursor)

\* a loop left because X matched the empty string, after an iteration that
\* advanced, with input remaining
C18_Witness ==
    /\ gp.pc = "matched"
    /\ StartRule(grammar).rightSide.t \in {"ZeroOrMore", "OneOrMore"}
    /\ gp.iterations >= 1
    /\ gp.cursor < Len(gp.input)
    /\ TryContent = Matched(gp.cursor)

-----------------------------------------------------------------------------
(* C19 *)

\* the start rule is A ::= A ... | ...
LeftRecursive(g) ==
    /\ StartRule(g) # Null
    /\ StartRule(g).rightSide.t = "Alternative"
    /\ StartRule(g).rightSide.choices[1].t = "Sequence"
    /\ StartRule(g).rightSide.choices[1].elements[1].t = "NonTerminal"
    /\ StartRule(g).rightSide.choices[1].elements[1].name = g.startSymbol

-----------------------------------------------------------------------------
(* utf8::codepointToUtf8, utf8::charLength and utf8::utf8ToCodepoint called in
   turn on a code point (uint32_t) *)

\* the code points tried: the powers of two below 2^31, their neighbours, the
\* ends of the ranges codepointToUtf8 tells apart, and some characters (a
\* uint32_t from 2^31 on takes the first branch as every value above 0x10FFFF)
Codepoints ==
    UNION { {2^k - 1, 2^k, 2^k + 1} : k \in 0..30 }
    \cup {2147483647}
    \cup {55295, 55296, 56320, 57343, 57344, 1114111, 1114112, 65, 120, 233, 8364, 128512}

\* codepointToUtf8(cp) called
Utf8Encode ==
    /\ utf.pc = "ready"
    /\ LET r == codepointToUtf8(utf.cp)
       IN  utf' = IF r.error # EmptyStr
                    THEN [pc |-> "thrown", cp |-> utf.cp, bytes |-> << >>,
                          length |-> 0, back |-> 0]
                    ELSE [pc |-> "encoded", cp |-> utf.cp, bytes |-> r.bytes,
                          length |-> 0, back |-> 0]
    /\ UNCHANGED <<pc, src, tokens, parser, grammar, val, outcome, printed, tk, gp, cli>>

\* charLength(first byte) and utf8ToCodepoint called on the bytes returned
Utf8Decode ==
    /\ utf.pc = "encoded"
    /\ utf' = [utf EXCEPT !.pc = "decoded",
                          !.length = charLength(Ord(utf.bytes[1])),
                          !.back = utf8ToCodepoint(utf.bytes)]
    /\ UNCHANGED <<pc, src, tokens, parser, grammar, val, outcome, printed, tk, gp, cli>>

NextUtf8 == Utf8Encode \/ Utf8Decode

InitUtf8 ==
    /\ pc = "unused"
    /\ src = Plain(<< >>)
    /\ tokens = << >>
    /\ parser = ParserStart
    /\ grammar = NoGrammar
    /\ val = ValidationStart
    /\ outcome = NotYet
    /\ printed = Unused
    /\ cli = Unused
    /\ tk = Unused
    /\ gp = Unused
    /\ utf \in { [pc |-> "ready", cp |-> c, bytes |-> << >>, length |-> 0, back |-> 0] :
                 c \in Codepoints }

SpecUtf8 == InitUtf8 /\ [][NextUtf8]_vars

-----------------------------------------------------------------------------
(* C20 *)

Surrogate(cp) == cp >= 55296 /\ cp <= 57343

\* C20: codepointToUtf8 throws exactly for the code points above 0x10FFFF and
\* the surrogates 0xD800..0xDFFF; for every other code point it returns one
\* to four bytes, charLength of the first byte is their number, and
\* utf8ToCodepoint of the bytes is the code point.
C20_Utf8RoundTrip ==
    /\ utf.pc = "thrown" => utf.cp > 1114111 \/ Surrogate(utf.cp)
    /\ utf.pc \in {"encoded", "decoded"} =>
          /\ utf.cp <= 1114111 /\ ~Surrogate(utf.cp)
          /\ Len(utf.bytes) \in 1..4
    /\ utf.pc = "decoded" =>
          /\ utf.length = Len(utf.bytes)
          /\ utf.back = utf.cp

\* a code point of four bytes encoded and decoded
C20_Witness ==
    /\ utf.pc = "decoded"
    /\ utf.cp > 65535
    /\ Len(utf.bytes) = 4
    /\ utf.back = utf.cp

-----------------------------------------------------------------------------
(* utf8::Utf8Iterator over a byte string, and utf8::length of it *)

MaxBytes == 4      \* bytes of a string iterated over

\* bytes tried: an ASCII byte, a continuation byte, and the lead bytes of
\* sequences of two, three and four bytes
IteratedBytes == { "x", Chr(128), Chr(195), Chr(226), Chr(240) }

\* std::string::substr(pos, n)
Substr(str, pos, n) ==
    SubSeq(str, pos + 1, IF pos + n > Len(str) THEN Len(str) ELSE pos + n)

\* utf8::extractChar: the string it returns
extractChar(input, pos) == Substr(input, pos, ExtractCharLength(input, pos))

\* Utf8Iterator::Utf8Iterator
Utf8IteratorStart(str) ==
    [pc |-> "iterating", str |-> str, pos |-> 0, charIdx |-> 0,
     chunks |-> << >>, seen |-> << >>, count |-> 0]

\* Utf8Iterator::atEnd
atEnd(it) == it.pos >= Len(it.str)

\* the body of for (Utf8Iterator it(str); !it.atEnd(); it.next()): current(),
\* position() and charIndex() read, then next()
IteratorNext ==
    /\ utf.pc = "iterating"
    /\ ~atEnd(utf)
    /\ utf' = [utf EXCEPT !.chunks = Append(@, extractChar(utf.str, utf.pos)),
                          !.seen = Append(@, [position |-> utf.pos, charIndex |-> utf.charIdx]),
                          !.pos = @ + ExtractCharLength(utf.str, utf.pos),
                          !.charIdx = @ + 1]
    /\ UNCHANGED <<pc, src, tokens, parser, grammar, val, outcome, printed, tk, gp, cli>>

\* the loop left at atEnd(); utf8::length called on the same string
IteratorEnd ==
    /\ utf.pc = "iterating"
    /\ atEnd(utf)
    /\ utf' = [utf EXCEPT !.pc = "ended", !.count = utf8Length(utf.str)]
    /\ UNCHANGED <<pc, src, tokens, parser, grammar, val, outcome, printed, tk, gp, cli>>

NextIterator == IteratorNext \/ IteratorEnd

InitIterator ==
    /\ pc = "unused"
    /\ src = Plain(<< >>)
    /\ tokens = << >>
    /\ parser = ParserStart
    /\ grammar = NoGrammar
    /\ val = ValidationStart
    /\ outcome = NotYet
    /\ printed = Unused
    /\ cli = Unused
    /\ tk = Unused
    /\ gp = Unused
    /\ utf \in { Utf8IteratorStart(str) : str \in UpTo(MaxBytes, IteratedBytes) }

SpecIterator == InitIterator /\ [][NextIterator]_vars

-----------------------------------------------------------------------------
(* C21 *)

\* the i-th chunk begins a sequence that is cut short or ill-continued: its
\* lead byte announces n > 1 bytes and they are not all there as 10xxxxxx
IllFormedAt(str, p) ==
    /\ charLength(Ord(str[p + 1])) > 1
    /\ \/ p + charLength(Ord(str[p + 1])) > Len(str)
       \/ \E i \in 1..(charLength(Ord(str[p + 1])) - 1) :
             Ord(str[p + i + 1]) < 128 \/ Ord(str[p + i + 1]) >= 192

\* C21: the chunks an iteration has yielded are of one to four bytes and
\* their concatenation is the input up to the iterator's position; the i-th
\* chunk was yielded at the byte offset where it begins and with charIndex
\* i - 1; a lead byte whose continuation bytes are missing or not 10xxxxxx is
\* a chunk of one byte; the iteration ends with the whole input yielded, and
\* utf8::length is the number of chunks.
C21_IteratorChunks ==
    utf.pc \in {"iterating", "ended"} =>
        /\ utf.pos <= Len(utf.str)
        /\ Concat(utf.chunks) = SubSeq(utf.str, 1, utf.pos)
        /\ utf.charIdx = Len(utf.chunks)
        /\ \A i \in DOMAIN utf.chunks :
              /\ Len(utf.chunks[i]) \in 1..4
              /\ utf.seen[i].charIndex = i - 1
              /\ utf.seen[i].position = Len(Concat(SubSeq(utf.chunks, 1, i - 1)))
              /\ IllFormedAt(utf.str, utf.seen[i].position) => Len(utf.chunks[i]) = 1
        /\ utf.pc = "ended" => utf.pos = Len(utf.str) /\ utf.count = Len(utf.chunks)

\* an iteration that ended after a chunk of several bytes and a lead byte
\* yielded alone
C21_Witness ==
    /\ utf.pc = "ended"
    /\ \E i \in DOMAIN utf.chunks : Len(utf.chunks[i]) > 1
    /\ \E i \in DOMAIN utf.chunks :
          IllFormedAt(utf.str, utf.seen[i].position) /\ Len(utf.chunks[i]) = 1

-----------------------------------------------------------------------------
(* main of the generator's command line *)

CliExit(c, code) == [c EXCEPT !.pc = "exited", !.exit = code]

\* what CodeGenerator::generate returns, as far as main reads it: success,
\* whether additional_files has a member, whether main_code is not empty
GenerateResults ==
    { [success |-> FALSE, additional |-> FALSE, main |-> FALSE] }
    \cup { [success |-> TRUE, additional |-> a, main |-> m] : a \in BOOLEAN, m \in BOOLEAN }

NoResult == [success |-> FALSE, additional |-> FALSE, main |-> FALSE]

\* main entered
CliStart == [pc |-> "args", exit |-> -1, files |-> {}, result |-> NoResult]

\* parseArgs, show_help, show_version, validateOptions
CliArguments ==
    /\ cli.pc = "args"
    /\ \E given \in {"unknown option", "help", "version", "no input or language", "run"} :
          cli' = CASE given \in {"unknown option", "no input or language"} -> CliExit(cli, 1)
                   [] given \in {"help", "version"} -> CliExit(cli, 0)
                   [] OTHER -> [cli EXCEPT !.pc = "read"]
    /\ UNCHANGED <<pc, src, tokens, parser, grammar, val, outcome, printed, tk, gp, utf>>

\* BNFGrammarFactory::fromFile: the file is opened and read, fromString is
\* entered; a file that cannot be opened throws, and main's catch returns 1
CliReadGrammar ==
    /\ cli.pc = "read"
    /\ \E opened \in BOOLEAN :
          IF opened THEN /\ cli' = [cli EXCEPT !.pc = "fromString"]
                         /\ pc' = "start"
                    ELSE /\ cli' = CliExit(cli, 1)
                         /\ pc' = pc
    /\ UNCHANGED <<src, tokens, parser, grammar, val, outcome, printed, tk, gp, utf>>

\* fromString has ended: what it threw is caught and main returns 1; on the
\* grammar it returned main calls validateGrammar again (the same grammar,
\* the same isValid as in val) and tests isValid
CliValidate ==
    /\ cli.pc = "fromString"
    /\ pc = "done"
    /\ cli' = IF outcome.kind = "thrown" THEN CliExit(cli, 1)
              ELSE IF ~val.result.isValid THEN CliExit(cli, 1)
              ELSE [cli EXCEPT !.pc = "generate"]
    /\ UNCHANGED <<pc, src, tokens, parser, grammar, val, outcome, printed, tk, gp, utf>>

\* CodeGeneratorFactory::create and generator->generate
CliGenerate ==
    /\ cli.pc = "generate"
    /\ \E result \in GenerateResults :
          cli' = IF ~result.success THEN CliExit(cli, 1)
                 ELSE [cli EXCEPT !.pc = "write", !.result = result]
    /\ UNCHANGED <<pc, src, tokens, parser, grammar, val, outcome, printed, tk, gp, utf>>

\* mkdir -p (a failure only warns), std::ofstream out(output_file)
CliWriteParser ==
    /\ cli.pc = "write"
    /\ \E out \in BOOLEAN :
          cli' = IF ~out THEN CliExit(cli, 1)
                 ELSE [cli EXCEPT !.pc = "additional", !.files = @ \cup {"parser"}]
    /\ UNCHANGED <<pc, src, tokens, parser, grammar, val, outcome, printed, tk, gp, utf>>

\* for (filename, content) of additional_files: written if it can be opened
CliWriteAdditional ==
    /\ cli.pc = "additional"
    /\ \E additional_out \in BOOLEAN :
          cli' = [cli EXCEPT !.pc = "main",
                             !.files = IF cli.result.additional /\ additional_out
                                         THEN @ \cup {"additional"} ELSE @]
    /\ UNCHANGED <<pc, src, tokens, parser, grammar, val, outcome, printed, tk, gp, utf>>

\* if (!result.main_code.empty()): std::ofstream main_out; then return 0
CliWriteMain ==
    /\ cli.pc = "main"
    /\ \E main_out \in BOOLEAN :
          cli' = IF ~cli.result.main THEN CliExit(cli, 0)
                 ELSE IF ~main_out THEN CliExit(cli, 1)
                 ELSE CliExit([cli EXCEPT !.files = @ \cup {"main"}], 0)
    /\ UNCHANGED <<pc, src, tokens, parser, grammar, val, outcome, printed, tk, gp, utf>>

NextCli == Next \/ CliArguments \/ CliReadGrammar \/ CliValidate \/ CliGenerate
           \/ CliWriteParser \/ CliWriteAdditional \/ CliWriteMain

\* main entered with the name of a grammar file whose text is src
InitCli ==
    /\ pc = "unused"
    /\ src \in Sources(GeneralLines)
    /\ tokens = << >>
    /\ parser = ParserStart
    /\ grammar = NoGrammar
    /\ val = ValidationStart
    /\ outcome = NotYet
    /\ printed = Unused
    /\ tk = Unused
    /\ gp = Unused
    /\ utf = Unused
    /\ cli = CliStart

SpecCli == InitCli /\ [][NextCli]_vars

-----------------------------------------------------------------------------
(* C22 *)

\* C22: the stages run in order: generation and writing come only after
\* fromString has lexed, parsed and validated the file's text and returned;
\* a file is written only when every earlier stage succeeded; and a run that
\* ends with exit code 1 has written no file.
C22_FilesOnlyAfterSuccess ==
    cli.pc # "unused" =>
        /\ cli.pc \in {"args", "read"} => pc = "unused"
        /\ cli.pc \in {"generate", "write", "additional", "main"} =>
              pc = "done" /\ outcome = Returned /\ val.result.isValid
        /\ cli.files # {} => outcome = Returned /\ val.result.isValid /\ cli.result.success
        /\ (cli.pc = "exited" /\ cli.exit = 1) => cli.files = {}

-----------------------------------------------------------------------------
(* C23 *)

Qempty == <<"'", "'">>

\* rules with an empty terminal alone, in a sequence, in an alternative,
\* under a repetition, written with either quote; rules without one; a line
\* that does not parse
EmptyTerminalLines ==
    { RuleLine(<<"a">>, Qempty),
      RuleLine(<<"a">>, <<"\"", "\"">>),
      RuleLine(<<"a">>, Words(<<Qx, Qempty>>)),
      RuleLine(<<"a">>, Words(<<Qempty, <<"|">>, Qx>>)),
      RuleLine(<<"b">>, <<"(">> \o Qempty \o <<")", "*">>),
      RuleLine(<<"b">>, Words(<< <<"a">>, <<"[">>, Qempty, <<"]">> >>)),
      RuleLine(<<"b">>, Qx),
      RuleLine(<<"a">>, <<"|">>) }

InitEmptyTerminal == InitFrom(Sources(EmptyTerminalLines))

SpecEmptyTerminal == InitEmptyTerminal /\ [][Next]_vars

\* some rule body of the grammar holds a terminal whose value is empty
HasEmptyTerminal(g) ==
    \E i \in DOMAIN g.rules :
        EmptyStr \in collectSymbols(g.rules[i].rightSide, {}, {}).terminals

\* C23: validateGrammar reports a grammar with an empty terminal in a rule
\* body as not valid, with an error, and fromString throws.
C23_EmptyTerminalRejected ==
    (pc \in {"validated", "done"} /\ grammar # NoGrammar /\ HasEmptyTerminal(grammar)) =>
        /\ ~val.result.isValid
        /\ val.result.errors # << >>
        /\ pc = "done" => outcome.kind = "thrown"

-----------------------------------------------------------------------------
(* C24 *)

\* scalars used as bounds: U+0000, U+0001, 'x', U+00E9, the scalars next to
\* the surrogates, U+10000 and U+10FFFF
BoundScalars == {0, 1, 120, 233, 55295, 57344, 65536, 1114111}

\* the terminal '\UXXXXXXXX' of a code point
EscapedTerminal(cp) == <<"'", "\\", "U">> \o HexField(cp, 8) \o <<"'">>

\* a ::= '\U<start>'..'\U<end>'
ScalarRangeLine(start, end) ==
    RuleLine(<<"a">>, EscapedTerminal(start) \o <<".", ".">> \o EscapedTerminal(end))

ScalarRangeSources ==
    { Plain(<< ScalarRangeLine(start, end) >>) : start \in BoundScalars, end \in BoundScalars }

InitScalarRange == InitFrom(ScalarRangeSources)

SpecScalarRange == InitScalarRange /\ [][Next]_vars

\* C24: a range whose bounds are single scalars with start <= end, U+0000
\* included, parses without error to the CharRange of the two code points.
C24_ScalarBoundsAccepted ==
    \A start \in BoundScalars, end \in BoundScalars :
        (/\ src = Plain(<< ScalarRangeLine(start, end) >>)
         /\ start <= end
         /\ pc \notin {"start", "lexed"}) =>
            /\ grammar # NoGrammar
            /\ parser.err = EmptyStr
            /\ grammar.rules[1].rightSide = CharRange(start, end)

-----------------------------------------------------------------------------
(* C25 *)

\* rule bodies of terminals and names joined by juxtaposition, |, groups and
\* postfix operators, and a body the parser refuses
ShapeBodies ==
    { Qx,
      <<"b">>,
      Words(<< Qx, Qy >>),
      Words(<< Qx, <<"|">>, Qy >>),
      Words(<< Qx, Qy, <<"|">>, Qz >>),
      Words(<< Qx, <<"|">>, Qy, <<"|">>, Qz >>),
      Words(<< <<"(">>, Qx, <<")">> >>),
      Words(<< <<"(">>, Qx, <<"|">>, Qy, <<")">>, Qz, <<"|">>, <<"b">> >>),
      Words(<< <<"[">>, Qx, Qy, <<"]">>, <<"b">> \o <<"*">> >>),
      Words(<< <<"{">>, Qz, <<"|">>, Qx, Qy, <<"}">> >>),
      Words(<< Qx, <<"|">> >>) }

ShapeLines == { RuleLine(h, b) : h \in { <<"a">>, <<"b">> }, b \in ShapeBodies }

InitShape == InitFrom(Sources(ShapeLines))

SpecShape == InitShape /\ [][Next]_vars

RECURSIVE WellShaped(_)
\* every Alternative and every Sequence at or below the node has two children
\* or more
WellShaped(node) ==
    CASE node.t = "Alternative" ->
            /\ Len(node.choices) >= 2
            /\ \A i \in DOMAIN node.choices : WellShaped(node.choices[i])
      [] node.t = "Sequence" ->
            /\ Len(node.elements) >= 2
            /\ \A i \in DOMAIN node.elements : WellShaped(node.elements[i])
      [] node.t \in {"Group", "Optional", "ZeroOrMore", "OneOrMore"} ->
            WellShaped(node.content)
      [] OTHER -> TRUE

RECURSIVE Leaves(_)
\* the terminals and names at or below the node, read from the first child to
\* the last
Leaves(node) ==
    CASE node.t = "Terminal" -> << node.value >>
      [] node.t = "NonTerminal" -> << node.name >>
      [] node.t = "Alternative" ->
            Concat([i \in DOMAIN node.choices |-> Leaves(node.choices[i])])
      [] node.t = "Sequence" ->
            Concat([i \in DOMAIN node.elements |-> Leaves(node.elements[i])])
      [] node.t \in {"Group", "Optional", "ZeroOrMore", "OneOrMore"} ->
            Leaves(node.content)
      [] OTHER -> << >>

\* the names and terminals of the text, in the order the lexer met them
WordsOfSource ==
    LET words == SelectSeq(tokens, LAMBDA tok : tok.type \in {"IDENTIFIER", "TERMINAL"})
    IN  [i \in DOMAIN words |-> words[i].value]

\* C25: in a grammar parseGrammar returned every Alternative and every
\* Sequence has two children or more, the children stand in the order of the
\* text, and a body of one factor is that factor itself.
C25_TwoChildrenInOrder ==
    (pc \notin {"start", "lexed"} /\ grammar # NoGrammar) =>
        /\ \A i \in DOMAIN grammar.rules : WellShaped(grammar.rules[i].rightSide)
        /\ Concat([i \in DOMAIN grammar.rules |->
                     << grammar.rules[i].leftSide >> \o Leaves(grammar.rules[i].rightSide)])
           = WordsOfSource
        /\ src.lines = << RuleLine(<<"a">>, Qx) >> =>
               grammar.rules[1].rightSide = Terminal(<<"x">>)

\* a grammar was returned that holds an Alternative with a Sequence among its
\* choices and a Group as the first element of a Sequence, next to a rule
\* whose body is one terminal
C25_Witness ==
    /\ pc = "done"
    /\ grammar # NoGrammar
    /\ Len(grammar.rules) = 2
    /\ grammar.rules[1].rightSide.t = "Alternative"
    /\ grammar.rules[1].rightSide.choices[1].t = "Sequence"
    /\ grammar.rules[1].rightSide.choices[1].elements[1].t = "Group"
    /\ grammar.rules[2].rightSide.t = "Terminal"

-----------------------------------------------------------------------------
(* C26 *)

\* the 1-based line of the byte at a 0-based position: one more than the
\* newlines before it
LineOfByte(input, position) ==
    1 + Cardinality({ i \in 1..position : input[i] = "\n" })

\* the 1-based column of the byte at a 0-based position: its distance from
\* the newline before it, or from the start of the text
ColumnOfByte(input, position) ==
    LET newlines == { i \in 1..position : input[i] = "\n" }
        lineStart == IF newlines = {} THEN 0
                     ELSE CHOOSE i \in newlines : \A h \in newlines : h <= i
    IN  position + 1 - lineStart

\* C26: every token of tokenize other than the final EOF has, at its position
\* in the input, its value, and its line and column are those of that byte,
\* also after skipped blanks or a skipped comment.
C26_TokenLocatesItsText ==
    tk.pc \in {"loop", "break", "returned"} =>
        \A j \in DOMAIN tk.tokens :
            ~SyntheticEOF(tk.tokens[j]) =>
                /\ Substr(tk.input, tk.tokens[j].position, Len(tk.tokens[j].value))
                     = tk.tokens[j].value
                /\ tk.tokens[j].line = LineOfByte(tk.input, tk.tokens[j].position)
                /\ tk.tokens[j].column = ColumnOfByte(tk.input, tk.tokens[j].position)

\* the same of the tokens before which nothing was skipped
C26_LocatesUnskipped ==
    tk.pc \in {"loop", "break", "returned"} =>
        \A j \in DOMAIN tk.tokens :
            (/\ ~SyntheticEOF(tk.tokens[j])
             /\ TokenStart(tk.input, tk.tokens[j].position) = tk.tokens[j].position) =>
                /\ Substr(tk.input, tk.tokens[j].position, Len(tk.tokens[j].value))
                     = tk.tokens[j].value
                /\ tk.tokens[j].line = LineOfByte(tk.input, tk.tokens[j].position)
                /\ tk.tokens[j].column = ColumnOfByte(tk.input, tk.tokens[j].position)

-----------------------------------------------------------------------------
(* One tokenizer used for several calls of tokenize, with the setters of the
   skip flags called between them *)

MaxCalls == 2      \* calls of tokenize on one tokenizer

\* setSkipWhitespace(skip), outside a call of tokenize
SetSkipWhitespace ==
    /\ tk.pc \in {"idle", "returned"}
    /\ \E skip \in BOOLEAN : tk' = [tk EXCEPT !.skipWhitespace = skip]
    /\ UNCHANGED <<pc, src, tokens, parser, grammar, val, outcome, printed, gp, utf, cli>>

\* setSkipComments(skip), outside a call of tokenize
SetSkipComments ==
    /\ tk.pc \in {"idle", "returned"}
    /\ \E skip \in BOOLEAN : tk' = [tk EXCEPT !.skipComments = skip]
    /\ UNCHANGED <<pc, src, tokens, parser, grammar, val, outcome, printed, gp, utf, cli>>

\* texts with a blank, a newline or a comment before a token, before a
\* character no rule matches, and at the end
CallInputs ==
    { EmptyStr, <<"x">>, <<" ", "x">>, <<"x", " ", "x">>, <<"x", "x">>,
      <<"#", "y", "\n", "x">>, <<"x", "#", "y">>, <<"#">>, <<" ">>,
      <<"(">>, <<"x", "(">>, <<"x", "\n", "(">>, <<"#", "y", "\n", "(">>,
      <<" ", "(">>, <<"#", "y", "\n">> }

\* tokenize(input) called
TokenizeCall ==
    /\ tk.pc \in {"idle", "returned"}
    /\ tk.calls < MaxCalls
    /\ \E input \in CallInputs : tk' = tokenizeEntered(tk, input)
    /\ UNCHANGED <<pc, src, tokens, parser, grammar, val, outcome, printed, gp, utf, cli>>

NextCalls ==
    \/ SetSkipWhitespace
    \/ SetSkipComments
    \/ TokenizeCall
    \/ TokenizeStep
    \/ TokenizeOverflow
    \/ TokenizeReturn

\* grammars of one rule: a terminal, rules that match the empty string, a
\* blank, the comment sign, and a rule that refers to itself
CallLines ==
    { RuleLine(<<"t">>, Qx),
      RuleLine(<<"o">>, Qx \o <<"?">>),
      RuleLine(<<"z">>, Qx \o <<"*">>),
      RuleLine(<<"w">>, <<"'", " ", "'">>),
      RuleLine(<<"h">>, <<"'", "#", "'">>),
      RuleLine(<<"e">>, Words(<< <<"'", "(", "'">>, <<"e">>, <<"|">>, Qx >>)) }

CallSources == { Plain(<< l >>) : l \in CallLines }

\* a tokenizer constructed on a grammar the parser returned
InitCalls ==
    /\ pc = "unused"
    /\ src \in CallSources
    /\ tokens = << >>
    /\ parser = ParserStart
    /\ grammar = parseGrammar(tokenize(SourceText(src)).tokens).grammar
    /\ val = ValidationStart
    /\ outcome = NotYet
    /\ printed = Unused
    /\ cli = Unused
    /\ tk = GrammarBasedTokenizer
    /\ gp = Unused
    /\ utf = Unused

SpecCalls == InitCalls /\ [][NextCalls]_vars

-----------------------------------------------------------------------------
(* C27 *)

\* the message tokenize leaves for the byte at a 0-based position
UnexpectedCharacter(input, position) ==
    <<"Unexpected character '", input[position + 1],
      "' at line ", ToString(LineOfByte(input, position)),
      ", column ", ToString(ColumnOfByte(input, position))>>

\* C27: a call of tokenize that stops at a byte no rule matches leaves the
\* message "Unexpected character '<c>' at line L, column C" of that byte and
\* keeps the tokens made before it; after a call the message is empty exactly
\* when the whole input was made into tokens or skipped, whatever an earlier
\* call left.
C27_LastErrorOfTheCall ==
    /\ [](tk.pc = "returned" =>
             /\ tk.lastError = EmptyStr <=> tk.pos >= Len(tk.input)
             /\ tk.lastError # EmptyStr =>
                   tk.lastError = UnexpectedCharacter(tk.input, tk.pos))
    /\ [][(tk.pc = "loop" /\ tk'.pc = "break" /\ tk'.lastError # EmptyStr) =>
              tk'.tokens = tk.tokens]_vars

\* the same without the line and the column of the message
C27_EmptyIffWholeInput ==
    tk.pc = "returned" =>
        /\ tk.lastError = EmptyStr <=> tk.pos >= Len(tk.input)
        /\ tk.lastError # EmptyStr =>
              /\ SubSeq(tk.lastError, 1, 3)
                   = <<"Unexpected character '", tk.input[tk.pos + 1], "' at line ">>
              /\ tk.lastError[5] = ", column "

\* a call returned without an error on a tokenizer whose call before had left
\* one
C27_Witness ==
    /\ tk.pc = "returned"
    /\ tk.erred
    /\ tk.lastError = EmptyStr
    /\ Len(tk.tokens) >= 2

-----------------------------------------------------------------------------
(* C30 *)

\* a turn of the loop of tokenize was taken
LoopTurn == tk.pc = "loop" /\ tk' # tk

\* C30: every turn of the loop of tokenize consumes a byte of the input or
\* leaves the loop, under every setting of the skip flags, and no token other
\* than the final EOF has an empty value.
C30_LoopTerminates ==
    /\ [][LoopTurn => (tk'.pc \in {"loop", "break", "returned"}
                        /\ (tk'.pos > tk.pos \/ tk'.pc # "loop"))]_vars
    /\ [](tk.pc # "idle" =>
             \A j \in DOMAIN tk.tokens :
                 ~SyntheticEOF(tk.tokens[j]) => Len(tk.tokens[j].value) > 0)

\* the same of the turns in which the synthesis of the patterns ends
C30_ProgressWhereSynthesisEnds ==
    /\ [][(LoopTurn /\ tk'.pc # "overflow") =>
              (tk'.pos > tk.pos \/ tk'.pc \in {"break", "returned"})]_vars
    /\ [](tk.pc # "idle" =>
             \A j \in DOMAIN tk.tokens :
                 ~SyntheticEOF(tk.tokens[j]) => Len(tk.tokens[j].value) > 0)

\* a rule that matches the empty string was tried at a byte it does not match
\* and the call ended with the error, with both skip flags off
C30_NullableTried ==
    /\ tk.pc = "returned"
    /\ ~tk.skipWhitespace /\ ~tk.skipComments
    /\ tk.lastError # EmptyStr
    /\ \E i \in DOMAIN grammar.rules :
          /\ MatchOfRule(grammar, tk.input, tk.pos, i).matched
          /\ MatchOfRule(grammar, tk.input, tk.pos, i).length = 0

-----------------------------------------------------------------------------
(* C28 *)

\* rule lines the parser accepts, and lines on which a parse function records
\* an error: after a factor of a sequence, after |, in a group, in an argument
\* list, before ::=, and at the start of the line
ErrorLines ==
    { RuleLine(<<"a">>, Qx),
      RuleLine(<<"b">>, Words(<< <<"a">>, Qy >>)),
      RuleLine(<<"a">>, Words(<< Qx, <<":", ":", "=">> >>)),
      RuleLine(<<"a">>, Words(<< Qx, Qy, <<",">> >>)),
      RuleLine(<<"b">>, Words(<< Qx, <<"|">>, Qy, <<":", ":", "=">>, Qz >>)),
      RuleLine(<<"a">>, Words(<< Qx, <<"|">> >>)),
      RuleLine(<<"a">>, Words(<< <<"(">>, Qx >>)),
      RuleLine(<<"a">>, Words(<< Qx, <<"b", "[">>, Qy, <<"]">> >>)),
      RuleLine(<<"a">>, << >>),
      Words(<< <<"a">>, Qx >>),
      Qx }

InitErrors == InitFrom(Sources(ErrorLines))

SpecErrors == InitErrors /\ [][Next]_vars

\* parseGrammar has run on the tokens
ParseGrammarReturned == pc \in {"parsed", "productivity", "validated"} \/ (pc = "done" /\ tokens # << >>)

\* the ::= of the rules parseGrammar comes to: the rule stands at the start of
\* a line and the lines before it parse without an error
BodyStarts ==
    { k \in 2..Len(tokens) - 1 :
        /\ tokens[k].type = "DEFINE"
        /\ tokens[k - 1].type = "IDENTIFIER"
        /\ k > 2 => tokens[k - 2].type = "NEWLINE"
        /\ parseGrammar(SubSeq(tokens, 1, k - 2) \o << tokens[Len(tokens)] >>).st.err
             = EmptyStr }

\* some call of parseSequence on the body of such a rule kept the elements it had parsed
\* and returned them with an error recorded by the factor it tried next
SequenceKeptBeforeError ==
    \E k \in BodyStarts :
        LET r == parseSequence(tokens, [ParserStart EXCEPT !.cur = k])
        IN  r.node # Null /\ r.st.err # EmptyStr

\* C28: parseGrammar returns no grammar exactly when it leaves an error, and
\* an error recorded while a sequence was being extended, whose elements were
\* kept, ends the run with no grammar.
C28_NullIffError ==
    ParseGrammarReturned =>
        /\ grammar = NoGrammar <=> parser.err # EmptyStr
        /\ SequenceKeptBeforeError =>
              (grammar = NoGrammar /\ parser.err # EmptyStr
               /\ (pc = "done" => outcome.kind = "thrown"))

\* parseGrammar returned nothing after a rule was read and a sequence of the
\* next rule kept its elements before the error
C28_Witness ==
    /\ pc = "done"
    /\ tokens # << >>
    /\ Len(src.lines) = 2
    /\ SequenceKeptBeforeError
    /\ grammar = NoGrammar
    /\ parser.err # EmptyStr

-----------------------------------------------------------------------------
(* C29 *)

Qdot == <<"'", ".", "'">>

\* rule bodies with a '[' after a name: lists of names, the empty list, and
\* contents that are no list of names; and bodies with a '[' after a terminal
\* or a group
BracketBodies ==
    { Words(<< <<"a">>, <<"[">>, <<"b">>, <<"]">> >>),
      <<"a", "[", "b", ",", "c", "]">>,
      Words(<< <<"a">>, <<"[">>, <<"]">> >>),
      Words(<< <<"a", "[", "b", "]">>, Qx >>),
      Words(<< Qx, <<"a">>, <<"[">>, <<"b">>, <<",">>, <<"c">>, <<"]">>, Qy >>),
      Words(<< <<"a">>, <<"[">>, Qx, <<"]">> >>),
      Words(<< <<"a">>, <<"[">>, <<"b">>, <<"c">>, <<"]">> >>),
      Words(<< <<"a">>, <<"[">>, <<"b">>, <<"|">>, <<"c">>, <<"]">> >>),
      Words(<< <<"a">>, <<"[">>, <<"b">>, <<",">>, Qx, <<"]">> >>),
      Words(<< <<"i">>, <<"[">> \o Qdot, <<"d", "+", "]">> >>),
      Words(<< Qx, <<"[">>, <<"b">>, <<"]">> >>),
      Words(<< <<"(">>, <<"a">>, <<")">>, <<"[">>, <<"b">>, <<"]">> >>),
      Words(<< <<"a">>, Qx, <<"[">> \o Qy \o <<"]">> >>) }

BracketLines == { RuleLine(<<"r">>, b) : b \in BracketBodies }

InitBracket == InitFrom(Sources(BracketLines))

SpecBracket == InitBracket /\ [][Next]_vars

\* the names of the text that a '[' follows
BracketCalls ==
    { i \in 1..Len(tokens) - 1 :
        tokens[i].type = "IDENTIFIER" /\ tokens[i + 1].type = "LEFT_BRACKET" }

RECURSIVE NamesFrom(_)
\* the names name , name , ... that stand at token j, up to the ']' that ends
\* them; no list when something else stands there
NamesFrom(j) ==
    IF tokens[j].type # "IDENTIFIER" THEN [list |-> FALSE, values |-> << >>]
    ELSE IF tokens[j + 1].type = "RIGHT_BRACKET"
      THEN [list |-> TRUE, values |-> << tokens[j].value >>]
    ELSE IF tokens[j + 1].type = "COMMA"
      THEN [list |-> NamesFrom(j + 2).list,
            values |-> << tokens[j].value >> \o NamesFrom(j + 2).values]
    ELSE [list |-> FALSE, values |-> << >>]

\* what stands in the bracket after the name at token i
BracketContent(i) ==
    IF tokens[i + 2].type = "RIGHT_BRACKET" THEN [list |-> TRUE, values |-> << >>]
    ELSE NamesFrom(i + 2)

RECURSIVE NodesOf(_)
\* the nodes at or below a node
NodesOf(node) ==
    {node} \cup
    CASE node.t = "Alternative" ->
            UNION { NodesOf(node.choices[i]) : i \in DOMAIN node.choices }
      [] node.t = "Sequence" ->
            UNION { NodesOf(node.elements[i]) : i \in DOMAIN node.elements }
      [] node.t \in {"Group", "Optional", "ZeroOrMore", "OneOrMore"} ->
            NodesOf(node.content)
      [] OTHER -> {}

NodesOfGrammar(g) == UNION { NodesOf(g.rules[i].rightSide) : i \in DOMAIN g.rules }

\* a Sequence of the grammar holds a reference with an Optional right after it
OptionalAfterReference(g) ==
    \E s \in NodesOfGrammar(g) :
        /\ s.t = "Sequence"
        /\ \E i \in 1..Len(s.elements) - 1 :
              s.elements[i].t = "NonTerminal" /\ s.elements[i + 1].t = "Optional"

C29_Refused ==
    /\ pc = "done"
    /\ tokens # << >>
    /\ grammar = NoGrammar
    /\ src.lines = << RuleLine(<<"r">>, Words(<< <<"i">>, <<"[">> \o Qdot, <<"d", "+", "]">> >>)) >>
    /\ parser.err # EmptyStr

====
